---------------------------- MODULE Spec2Model ----------------------------
(***************************************************************************)
(* A model of the image-to-text web backend: the free-text report parsers  *)
(* (med_service, seo_service, text_service), enhance_alt_text, the upload   *)
(* validators (file_utils), the upload handlers of main_routes with the     *)
(* upload folder they share, the methods of ImageProcessor, the service     *)
(* operations on the generative model, and the processing part of the       *)
(* handlers that combine them, and the text-to-speech handler with the      *)
(* temporary directory it writes to.                                        *)
(*                                                                          *)
(* A Python str is modelled as a sequence of one-character strings, so that *)
(* substring tests, strip(), split() and lower() are computed on the text.  *)
(***************************************************************************)
EXTENDS Integers, Sequences, FiniteSets, TLC

VARIABLES
    \* --- report parsers (SpecParse)
    parser,      \* which parser the text is handed to
    text,        \* the generated text handed to the parser
    sections,    \* the mapping the parser returned
    ppc,         \* "start" before the parser ran, "done" after
    \* --- enhance_alt_text (SpecEnhance)
    alt_text,    \* the argument alt_text
    min_words,   \* the argument min_words
    backend,     \* what the generative backend does in this run
    calls,       \* number of generate_content calls issued
    enhanced,    \* the ServiceResult returned
    epc,         \* "start" / "done"
    \* --- allowed_file and validate_image (SpecFile)
    filename,    \* the argument filename
    allowed,     \* the argument allowed_extensions ("default" for None)
    verdict,     \* what the validator returned
    stream,      \* the uploaded file stream: [magic, len, pos, maxread]
    fpc,         \* "start" / "done"
    \* --- upload handlers (Spec)
    fs,          \* the upload folder: path -> bytes stored there, or NoFile
    req,         \* per request: its handler, upload, position and response
    \* --- ImageProcessor (SpecImage)
    blip_available,  \* self.blip_available
    detr_available,  \* self.detr_available
    image,       \* the image handed in, by what the models make of it
    method,      \* which method is called
    imgOut,     \* what the call returned, or the exception that left it
    ipc,         \* "start" / "done"
    \* --- service operations on the generative model (SpecService)
    operation,   \* which operation is called
    argument,    \* its text argument
    remote,      \* what the generative backend does in this run
    svcOut,      \* what the call returned, or the exception that left it
    spc,         \* "start" / "done"
    \* --- what a handler does with an opened upload (SpecProcess)
    handler,     \* which handler runs
    world,       \* the models, the image and the backend of this run
    response,    \* the HTTP response: status and body
    hpc,         \* "start" / "done"
    \* --- POST /text-to-speech (SpecTts)
    speech,      \* each request: its body, where the handler is, its response
    tempdir      \* the temporary audio files that exist, by the request that made them

parseVars == <<parser, text, sections, ppc>>
enhVars   == <<alt_text, min_words, backend, calls, enhanced, epc>>
fileVars  == <<filename, allowed, verdict, stream, fpc>>
upVars    == <<fs, req>>
imgVars   == <<blip_available, detr_available, image, method, imgOut, ipc>>
svcVars   == <<operation, argument, remote, svcOut, spc>>
procVars  == <<handler, world, response, hpc>>
ttsVars   == <<speech, tempdir>>
vars      == <<parseVars, enhVars, fileVars, upVars, imgVars, svcVars, procVars,
               ttsVars>>

(***************************************************************************)
(* Python str operations                                                    *)
(***************************************************************************)
SetMin(S) == CHOOSE x \in S : \A y \in S : x <= y
SetMax(S) == CHOOSE x \in S : \A y \in S : x >= y

\* the whitespace characters str.strip() and str.split() remove
WS == {" ", "\t", "\n", "\r"}

UpperChars == <<"A","B","C","D","E","F","G","H","I","J","K","L","M",
                "N","O","P","Q","R","S","T","U","V","W","X","Y","Z">>
LowerChars == <<"a","b","c","d","e","f","g","h","i","j","k","l","m",
                "n","o","p","q","r","s","t","u","v","w","x","y","z">>

\* str.lower() on one character
LowerChar(c) ==
    IF \E i \in 1..Len(UpperChars) : UpperChars[i] = c
    THEN LowerChars[CHOOSE i \in 1..Len(UpperChars) : UpperChars[i] = c]
    ELSE c

\* s.lower()
Lower(s) == [i \in 1..Len(s) |-> LowerChar(s[i])]

\* s.strip()
Strip(s) ==
    LET keep == {i \in 1..Len(s) : s[i] \notin WS}
    IN  IF keep = {} THEN <<>> ELSE SubSeq(s, SetMin(keep), SetMax(keep))

\* kw in s
Contains(s, kw) ==
    \E i \in 1..(Len(s) - Len(kw) + 1) : SubSeq(s, i, i + Len(kw) - 1) = kw

\* s.startswith(p)
StartsWith(s, p) == Len(s) >= Len(p) /\ SubSeq(s, 1, Len(p)) = p

\* s.startswith((p1, p2, ...))
StartsWithAny(s, ps) == \E p \in ps : StartsWith(s, p)

\* s.split(c) for a one-character separator c: "".split(c) is ['']
RECURSIVE SplitOn(_, _)
SplitOn(s, c) ==
    LET at == {i \in 1..Len(s) : s[i] = c}
    IN  IF at = {} THEN <<s>>
        ELSE <<SubSeq(s, 1, SetMin(at) - 1)>>
             \o SplitOn(SubSeq(s, SetMin(at) + 1, Len(s)), c)

\* s.split(): the maximal runs of non-whitespace characters
RECURSIVE SplitWords(_)
SplitWords(s) ==
    LET t == Strip(s)
        ws == {i \in 1..Len(t) : t[i] \in WS}
    IN  IF t = <<>> THEN <<>>
        ELSE IF ws = {} THEN <<t>>
        ELSE <<SubSeq(t, 1, SetMin(ws) - 1)>>
             \o SplitWords(SubSeq(t, SetMin(ws) + 1, Len(t)))

\* sep.join(parts)
RECURSIVE Join(_, _)
Join(sep, parts) ==
    IF parts = <<>> THEN <<>>
    ELSE IF Len(parts) = 1 THEN parts[1]
    ELSE parts[1] \o sep \o Join(sep, Tail(parts))

NL == <<"\n">>
SP == <<" ">>

\* [f(x) for x in xs if keep(x)] with f = strip and keep = non-empty after strip
RECURSIVE StripNonEmpty(_)
StripNonEmpty(xs) ==
    IF xs = <<>> THEN <<>>
    ELSE IF Strip(Head(xs)) = <<>> THEN StripNonEmpty(Tail(xs))
    ELSE <<Strip(Head(xs))>> \o StripNonEmpty(Tail(xs))

\* [x.strip() for x in xs]
StripAll(xs) == [i \in 1..Len(xs) |-> Strip(xs[i])]

(***************************************************************************)
(* med_service.parse_medical_report                                         *)
(***************************************************************************)
KW_TechnicalAssessment    == <<"T","e","c","h","n","i","c","a","l"," ","A","s","s","e","s","s","m","e","n","t">>
KW_AnatomicalObservations == <<"A","n","a","t","o","m","i","c","a","l"," ","O","b","s","e","r","v","a","t","i","o","n","s">>
KW_NotableFindings        == <<"N","o","t","a","b","l","e"," ","F","i","n","d","i","n","g","s">>
KW_Recommendations        == <<"R","e","c","o","m","m","e","n","d","a","t","i","o","n","s">>

\* the tuple of prefixes of med_service.py line 97
MedNumberMarkers == {<<"1",".">>, <<"2",".">>, <<"3",".">>, <<"4",".">>}

MedEmptySections ==
    [technical_assessment |-> <<>>, anatomical_observations |-> <<>>,
     notable_findings |-> <<>>, recommendations |-> <<>>]

\* the state before the loop: sections, current_section, current_content
MedStart == [sections |-> MedEmptySections, cur |-> "None", content |-> <<>>]

\* a slip: a line is accumulated whether or not a section is active
MedStepKeepsPreamble(st, raw) ==
    LET line == Strip(raw) IN
    IF line = <<>> THEN st
    ELSE IF Contains(line, KW_TechnicalAssessment) THEN
        [st EXCEPT !.cur = "technical_assessment"]
    ELSE IF Contains(line, KW_AnatomicalObservations) THEN
        [st EXCEPT !.sections.technical_assessment =
                       IF st.cur = "technical_assessment"
                       THEN Join(NL, st.content) ELSE @,
                   !.cur = "anatomical_observations",
                   !.content = <<>>]
    ELSE IF Contains(line, KW_NotableFindings) THEN
        [st EXCEPT !.sections.anatomical_observations =
                       IF st.cur = "anatomical_observations"
                       THEN Join(NL, st.content) ELSE @,
                   !.cur = "notable_findings",
                   !.content = <<>>]
    ELSE IF Contains(line, KW_Recommendations) THEN
        [st EXCEPT !.sections.notable_findings =
                       IF st.cur = "notable_findings"
                       THEN Join(NL, st.content) ELSE @,
                   !.cur = "recommendations",
                   !.content = <<>>]
    ELSE IF ~StartsWithAny(line, MedNumberMarkers) THEN
        [st EXCEPT !.content = Append(@, line)]
    ELSE st

\* one iteration of the loop over text.split('\n')
MedStep(st, raw) ==
    LET line == Strip(raw) IN
    IF line = <<>> THEN st
    ELSE IF Contains(line, KW_TechnicalAssessment) THEN
        [st EXCEPT !.cur = "technical_assessment"]
    ELSE IF Contains(line, KW_AnatomicalObservations) THEN
        [st EXCEPT !.sections.technical_assessment =
                       IF st.cur = "technical_assessment"
                       THEN Join(NL, st.content) ELSE @,
                   !.cur = "anatomical_observations",
                   !.content = <<>>]
    ELSE IF Contains(line, KW_NotableFindings) THEN
        [st EXCEPT !.sections.anatomical_observations =
                       IF st.cur = "anatomical_observations"
                       THEN Join(NL, st.content) ELSE @,
                   !.cur = "notable_findings",
                   !.content = <<>>]
    ELSE IF Contains(line, KW_Recommendations) THEN
        [st EXCEPT !.sections.notable_findings =
                       IF st.cur = "notable_findings"
                       THEN Join(NL, st.content) ELSE @,
                   !.cur = "recommendations",
                   !.content = <<>>]
    ELSE IF st.cur # "None" /\ ~StartsWithAny(line, MedNumberMarkers) THEN
        [st EXCEPT !.content = Append(@, line)]
    ELSE st

\* a slip: the last section is stored whatever the current section is
MedFinishUnguarded(st) ==
    [st.sections EXCEPT !.recommendations = Join(NL, st.content)]

\* "Handle last section" and return
MedFinish(st) ==
    IF st.cur = "recommendations"
    THEN [st.sections EXCEPT !.recommendations = Join(NL, st.content)]
    ELSE st.sections

RECURSIVE MedScan(_, _)
MedScan(st, rawlines) ==
    IF rawlines = <<>> THEN st
    ELSE MedScan(MedStep(st, Head(rawlines)), Tail(rawlines))

parse_medical_report(t) == MedFinish(MedScan(MedStart, SplitOn(t, "\n")))

(***************************************************************************)
(* seo_service.parse_seo_content                                            *)
(***************************************************************************)
KW_meta_title          == <<"m","e","t","a"," ","t","i","t","l","e">>
KW_title_colon         == <<"t","i","t","l","e",":">>
KW_meta_description    == <<"m","e","t","a"," ","d","e","s","c","r","i","p","t","i","o","n">>
KW_description_colon   == <<"d","e","s","c","r","i","p","t","i","o","n",":">>
KW_alternative_titles  == <<"a","l","t","e","r","n","a","t","i","v","e"," ","t","i","t","l","e","s">>
KW_ab_testing          == <<"a","/","b"," ","t","e","s","t","i","n","g">>
KW_keywords            == <<"k","e","y","w","o","r","d","s">>
KW_product_description == <<"p","r","o","d","u","c","t"," ","d","e","s","c","r","i","p","t","i","o","n">>

SeoEmptySections ==
    [meta_title |-> <<>>, meta_description |-> <<>>, alternative_titles |-> <<>>,
     keywords |-> <<>>, product_description |-> <<>>]

SeoStart == [sections |-> SeoEmptySections, cur |-> "None", content |-> <<>>]

\* one iteration of the loop over content.split('\n')
SeoStep(st, raw) ==
    LET line == Strip(raw)
        low  == Lower(line)
    IN
    IF line = <<>> THEN st
    ELSE IF Contains(low, KW_meta_title) \/ Contains(low, KW_title_colon) THEN
        [st EXCEPT !.cur = "meta_title"]
    ELSE IF Contains(low, KW_meta_description) \/ Contains(low, KW_description_colon) THEN
        [st EXCEPT !.sections.meta_title =
                       IF st.cur = "meta_title"
                       THEN Strip(Join(SP, st.content)) ELSE @,
                   !.cur = "meta_description",
                   !.content = <<>>]
    ELSE IF Contains(low, KW_alternative_titles) \/ Contains(low, KW_ab_testing) THEN
        [st EXCEPT !.sections.meta_description =
                       IF st.cur = "meta_description"
                       THEN Strip(Join(SP, st.content)) ELSE @,
                   !.cur = "alternative_titles",
                   !.content = <<>>]
    ELSE IF Contains(low, KW_keywords) THEN
        [st EXCEPT !.sections.alternative_titles =
                       IF st.cur = "alternative_titles"
                       THEN StripNonEmpty(st.content) ELSE @,
                   !.cur = "keywords",
                   !.content = <<>>]
    ELSE IF Contains(low, KW_product_description) THEN
        [st EXCEPT !.sections.keywords =
                       IF st.cur = "keywords"
                       THEN StripAll(SplitOn(Join(SP, st.content), ",")) ELSE @,
                   !.cur = "product_description",
                   !.content = <<>>]
    ELSE IF st.cur # "None" THEN
        [st EXCEPT !.content = Append(@, line)]
    ELSE st

\* "Handle last section" and return
SeoFinish(st) ==
    IF st.cur = "product_description"
    THEN [st.sections EXCEPT !.product_description = Strip(Join(SP, st.content))]
    ELSE st.sections

RECURSIVE SeoScan(_, _)
SeoScan(st, rawlines) ==
    IF rawlines = <<>> THEN st
    ELSE SeoScan(SeoStep(st, Head(rawlines)), Tail(rawlines))

parse_seo_content(t) == SeoFinish(SeoScan(SeoStart, SplitOn(t, "\n")))

(***************************************************************************)
(* seo_service.parse_social_content                                         *)
(***************************************************************************)
KW_instagram == <<"i","n","s","t","a","g","r","a","m">>
KW_twitter   == <<"t","w","i","t","t","e","r">>
KW_x_post    == <<"x"," ","p","o","s","t">>
KW_facebook  == <<"f","a","c","e","b","o","o","k">>
KW_hashtag   == <<"h","a","s","h","t","a","g">>

\* the tuple of prefixes of seo_service.py line 154
SocialNumberMarkers == {<<"1",".">>, <<"2",".">>, <<"3",".">>, <<"4",".">>, <<"5",".">>}

SocialEmptySections ==
    [instagram_captions |-> <<>>, twitter_posts |-> <<>>,
     facebook_post |-> <<>>, hashtags |-> <<>>]

SocialStart == [sections |-> SocialEmptySections, cur |-> "None", content |-> <<>>]

\* one iteration of the loop over content.split('\n')
SocialStep(st, raw) ==
    LET line == Strip(raw)
        low  == Lower(line)
    IN
    IF line = <<>> THEN st
    ELSE IF Contains(low, KW_instagram) THEN
        [st EXCEPT !.cur = "instagram_captions", !.content = <<>>]
    ELSE IF Contains(low, KW_twitter) \/ Contains(low, KW_x_post) THEN
        [st EXCEPT !.sections.instagram_captions =
                       IF st.cur = "instagram_captions"
                       THEN StripNonEmpty(st.content) ELSE @,
                   !.cur = "twitter_posts",
                   !.content = <<>>]
    ELSE IF Contains(low, KW_facebook) THEN
        [st EXCEPT !.sections.twitter_posts =
                       IF st.cur = "twitter_posts"
                       THEN StripNonEmpty(st.content) ELSE @,
                   !.cur = "facebook_post",
                   !.content = <<>>]
    ELSE IF Contains(low, KW_hashtag) THEN
        [st EXCEPT !.sections.facebook_post =
                       IF st.cur = "facebook_post"
                       THEN Strip(Join(SP, st.content)) ELSE @,
                   !.cur = "hashtags",
                   !.content = <<>>]
    ELSE IF st.cur # "None" /\ ~StartsWithAny(low, SocialNumberMarkers) THEN
        [st EXCEPT !.content = Append(@, line)]
    ELSE st

\* "Handle last section" and return
SocialFinish(st) ==
    IF st.cur = "hashtags"
    THEN [st.sections EXCEPT
             !.hashtags = StripNonEmpty(SplitOn(Join(SP, st.content), "#"))]
    ELSE st.sections

RECURSIVE SocialScan(_, _)
SocialScan(st, rawlines) ==
    IF rawlines = <<>> THEN st
    ELSE SocialScan(SocialStep(st, Head(rawlines)), Tail(rawlines))

parse_social_content(t) == SocialFinish(SocialScan(SocialStart, SplitOn(t, "\n")))

(***************************************************************************)
(* text_service.analyze_medical_image: the inline section scan              *)
(***************************************************************************)
KW_1_KeyFindings            == <<"1","."," ","K","e","y"," ","F","i","n","d","i","n","g","s",":">>
KW_2_PotentialObservations  == <<"2","."," ","P","o","t","e","n","t","i","a","l"," ","O","b","s","e","r","v","a","t","i","o","n","s",":">>
KW_3_Recommendations        == <<"3","."," ","R","e","c","o","m","m","e","n","d","a","t","i","o","n","s",":">>

InlineEmptySections ==
    [key_findings |-> <<>>, potential_observations |-> <<>>, recommendations |-> <<>>]

InlineStart == [sections |-> InlineEmptySections, cur |-> "None"]

\* a slip: the third heading is looked for before the first
InlineStepReordered(st, line) ==
    IF Contains(line, KW_3_Recommendations) THEN [st EXCEPT !.cur = "recommendations"]
    ELSE IF Contains(line, KW_2_PotentialObservations) THEN
        [st EXCEPT !.cur = "potential_observations"]
    ELSE IF Contains(line, KW_1_KeyFindings) THEN [st EXCEPT !.cur = "key_findings"]
    ELSE IF st.cur # "None" /\ Strip(line) # <<>> THEN
        [st EXCEPT !.sections[st.cur] = @ \o Strip(line) \o NL]
    ELSE st

\* one iteration of the loop over analysis.split('\n')
InlineStep(st, line) ==
    IF Contains(line, KW_1_KeyFindings) THEN [st EXCEPT !.cur = "key_findings"]
    ELSE IF Contains(line, KW_2_PotentialObservations) THEN
        [st EXCEPT !.cur = "potential_observations"]
    ELSE IF Contains(line, KW_3_Recommendations) THEN
        [st EXCEPT !.cur = "recommendations"]
    ELSE IF st.cur # "None" /\ Strip(line) # <<>> THEN
        [st EXCEPT !.sections[st.cur] = @ \o Strip(line) \o NL]
    ELSE st

RECURSIVE InlineScan(_, _)
InlineScan(st, rawlines) ==
    IF rawlines = <<>> THEN st
    ELSE InlineScan(InlineStep(st, Head(rawlines)), Tail(rawlines))

parse_inline_sections(t) == InlineScan(InlineStart, SplitOn(t, "\n")).sections

(***************************************************************************)
(* The texts the parsers are run on                                         *)
(***************************************************************************)
\* longest free sequence of lines handed to a parser
MaxLines == 3
\* most body lines under one heading of a full four-heading report
MaxBody == 1

SeqsUpTo(S, n) == UNION {[1..k -> S] : k \in 0..n}

Body_ok       == <<"o","k">>
Body_indented == <<" ","b"," ">>
Body_numbered == <<"1","."," ","a">>
Body_marker   == <<"2",".">>
Blank         == <<>>

MedHeadingLines ==
    {<<"1","."," ","T","e","c","h","n","i","c","a","l"," ","A","s","s","e","s","s","m","e","n","t">>, <<"A","n","a","t","o","m","i","c","a","l"," ","O","b","s","e","r","v","a","t","i","o","n","s",":">>,
     <<"N","o","t","a","b","l","e"," ","F","i","n","d","i","n","g","s">>, <<"R","e","c","o","m","m","e","n","d","a","t","i","o","n","s">>}

MedLines ==
    MedHeadingLines \cup
    {<<"N","o","t","a","b","l","e"," ","F","i","n","d","i","n","g","s",","," ","R","e","c","o","m","m","e","n","d","a","t","i","o","n","s">>,
     Body_ok, Body_indented, Body_numbered, Body_marker, Blank}

\* the heading line the model writes for a section key
MedHeadingOf(k) ==
    CASE k = "technical_assessment"    -> <<"1","."," ","T","e","c","h","n","i","c","a","l"," ","A","s","s","e","s","s","m","e","n","t">>
      [] k = "anatomical_observations" -> <<"A","n","a","t","o","m","i","c","a","l"," ","O","b","s","e","r","v","a","t","i","o","n","s",":">>
      [] k = "notable_findings"        -> <<"N","o","t","a","b","l","e"," ","F","i","n","d","i","n","g","s">>
      [] k = "recommendations"         -> <<"R","e","c","o","m","m","e","n","d","a","t","i","o","n","s">>

MedKeys == <<"technical_assessment", "anatomical_observations",
             "notable_findings", "recommendations">>

\* full reports: every heading once, each followed by a non-empty body
MedOrders == {<<1, 2, 3, 4>>, <<2, 1, 3, 4>>}
MedBodies == {b \in SeqsUpTo({Body_ok, Body_numbered}, MaxBody) : b # <<>>}

MedReport(order, bodies) ==
    LET part(i) == <<MedHeadingOf(MedKeys[order[i]])>> \o bodies[i]
    IN  part(1) \o part(2) \o part(3) \o part(4)

MedReports ==
    {MedReport(o, b) : o \in MedOrders, b \in [1..4 -> MedBodies]}

\* reports that come back to a heading: a later heading and its body, then the
\* first heading of the template, then the later heading again
MedRevisits ==
    {<<<<"A","n","a","t","o","m","i","c","a","l"," ","O","b","s","e","r","v","a","t","i","o","n","s",":">>, b, <<"1","."," ","T","e","c","h","n","i","c","a","l"," ","A","s","s","e","s","s","m","e","n","t">>>> \o rest :
        b \in {Body_ok, Body_indented},
        rest \in {<<<<"A","n","a","t","o","m","i","c","a","l"," ","O","b","s","e","r","v","a","t","i","o","n","s",":">>>>,
                  <<<<"x">>, <<"A","n","a","t","o","m","i","c","a","l"," ","O","b","s","e","r","v","a","t","i","o","n","s",":">>>>}}

SeoRevisits ==
    {<<<<"M","e","t","a"," ","D","e","s","c","r","i","p","t","i","o","n",":">>, b, <<"M","e","t","a"," ","T","i","t","l","e",":">>>> \o rest :
        b \in {Body_ok, <<"a",","," ","b">>},
        rest \in {<<<<"M","e","t","a"," ","D","e","s","c","r","i","p","t","i","o","n",":">>>>, <<<<"x">>, <<"M","e","t","a"," ","D","e","s","c","r","i","p","t","i","o","n",":">>>>}}

\* the heading lines the SEO prompt asks for, in its order
SeoTemplate ==
    <<<<"M","e","t","a"," ","T","i","t","l","e",":">>, <<"M","e","t","a"," ","D","e","s","c","r","i","p","t","i","o","n",":">>, <<"A","l","t","e","r","n","a","t","i","v","e"," ","T","i","t","l","e","s",":">>,
      <<"K","e","y","w","o","r","d","s",":">>, <<"P","r","o","d","u","c","t"," ","D","e","s","c","r","i","p","t","i","o","n",":">>>>

\* full SEO texts: the five headings in the order of the prompt, each followed by
\* a non-empty body
SeoBodies == {b \in SeqsUpTo({Body_ok, <<"a",","," ","b">>}, MaxBody) : b # <<>>}

SeoReport(bodies) ==
    LET part(i) == <<SeoTemplate[i]>> \o bodies[i]
    IN  part(1) \o part(2) \o part(3) \o part(4) \o part(5)

SeoReports == {SeoReport(b) : b \in [1..5 -> SeoBodies]}

SeoLines ==
    {<<"M","e","t","a"," ","T","i","t","l","e",":">>, <<"M","e","t","a"," ","D","e","s","c","r","i","p","t","i","o","n",":">>, <<"A","l","t","e","r","n","a","t","i","v","e"," ","T","i","t","l","e","s",":">>,
     <<"K","e","y","w","o","r","d","s",":">>, <<"P","r","o","d","u","c","t"," ","D","e","s","c","r","i","p","t","i","o","n",":">>, <<"P","r","o","d","u","c","t"," ","d","e","s","c","r","i","p","t","i","o","n">>,
     <<"A","/","B"," ","t","e","s","t","i","n","g">>,
     Body_ok, <<"a",","," ","b">>, Blank}

SocialLines ==
    {<<"I","n","s","t","a","g","r","a","m">>, <<"T","w","i","t","t","e","r">>, <<"X"," ","p","o","s","t","s">>, <<"F","a","c","e","b","o","o","k">>, <<"H","a","s","h","t","a","g","s">>,
     <<"F","a","c","e","b","o","o","k"," ","h","a","s","h","t","a","g","s">>,
     Body_ok, Body_numbered, <<"#","a"," ","#","b">>, Blank}

InlineLines ==
    {<<"1","."," ","K","e","y"," ","F","i","n","d","i","n","g","s",":">>, <<"2","."," ","P","o","t","e","n","t","i","a","l"," ","O","b","s","e","r","v","a","t","i","o","n","s",":">>,
     <<"3","."," ","R","e","c","o","m","m","e","n","d","a","t","i","o","n","s",":">>, <<"R","e","c","o","m","m","e","n","d","a","t","i","o","n","s">>,
     <<"3","."," ","R","e","c","o","m","m","e","n","d","a","t","i","o","n","s",":"," ","s","e","e"," ","1","."," ","K","e","y"," ","F","i","n","d","i","n","g","s",":">>,
     Body_ok, Body_indented, Blank}

Parsers == {"med", "seo", "social", "inline"}

ParseLineSeqs(p) ==
    CASE p = "med"    -> SeqsUpTo(MedLines, MaxLines) \cup MedReports \cup MedRevisits
      [] p = "seo"    -> SeqsUpTo(SeoLines, MaxLines) \cup SeoReports \cup SeoRevisits
      [] p = "social" -> SeqsUpTo(SocialLines, MaxLines)
      [] p = "inline" -> SeqsUpTo(InlineLines, MaxLines)

\* the text is the lines joined by newlines; the empty text has no lines
ParseInputs(p) == {Join(NL, ls) : ls \in ParseLineSeqs(p)}

NoSections == <<>>

InitParse ==
    /\ parser \in Parsers
    /\ text \in ParseInputs(parser)
    /\ sections = NoSections
    /\ ppc = "start"

IdleParse ==
    /\ parser = "none"
    /\ text = <<>>
    /\ sections = NoSections
    /\ ppc = "idle"

ParseMedical ==
    /\ ppc = "start" /\ parser = "med"
    /\ sections' = parse_medical_report(text)
    /\ ppc' = "done"
    /\ UNCHANGED <<parser, text, enhVars, fileVars, upVars, imgVars, svcVars, procVars, ttsVars>>

ParseSeo ==
    /\ ppc = "start" /\ parser = "seo"
    /\ sections' = parse_seo_content(text)
    /\ ppc' = "done"
    /\ UNCHANGED <<parser, text, enhVars, fileVars, upVars, imgVars, svcVars, procVars, ttsVars>>

ParseSocial ==
    /\ ppc = "start" /\ parser = "social"
    /\ sections' = parse_social_content(text)
    /\ ppc' = "done"
    /\ UNCHANGED <<parser, text, enhVars, fileVars, upVars, imgVars, svcVars, procVars, ttsVars>>

ParseInline ==
    /\ ppc = "start" /\ parser = "inline"
    /\ sections' = parse_inline_sections(text)
    /\ ppc' = "done"
    /\ UNCHANGED <<parser, text, enhVars, fileVars, upVars, imgVars, svcVars, procVars, ttsVars>>

NextParse == ParseMedical \/ ParseSeo \/ ParseSocial \/ ParseInline

(***************************************************************************)
(* Properties of the parsers                                                *)
(***************************************************************************)
LinesOf(t) == SplitOn(t, "\n")

\* the declared section keys of each parser
KeysOf(p) ==
    CASE p = "med"    -> {"technical_assessment", "anatomical_observations",
                          "notable_findings", "recommendations"}
      [] p = "seo"    -> {"meta_title", "meta_description", "alternative_titles",
                          "keywords", "product_description"}
      [] p = "social" -> {"instagram_captions", "twitter_posts", "facebook_post",
                          "hashtags"}
      [] p = "inline" -> {"key_findings", "potential_observations",
                          "recommendations"}

\* the keywords that announce a section
KeywordsOf(p, k) ==
    CASE p = "med" /\ k = "technical_assessment"       -> {KW_TechnicalAssessment}
      [] p = "med" /\ k = "anatomical_observations"    -> {KW_AnatomicalObservations}
      [] p = "med" /\ k = "notable_findings"           -> {KW_NotableFindings}
      [] p = "med" /\ k = "recommendations"            -> {KW_Recommendations}
      [] p = "seo" /\ k = "meta_title"          -> {KW_meta_title, KW_title_colon}
      [] p = "seo" /\ k = "meta_description"    -> {KW_meta_description,
                                                    KW_description_colon}
      [] p = "seo" /\ k = "alternative_titles"  -> {KW_alternative_titles,
                                                    KW_ab_testing}
      [] p = "seo" /\ k = "keywords"            -> {KW_keywords}
      [] p = "seo" /\ k = "product_description" -> {KW_product_description}
      [] p = "social" /\ k = "instagram_captions" -> {KW_instagram}
      [] p = "social" /\ k = "twitter_posts"      -> {KW_twitter, KW_x_post}
      [] p = "social" /\ k = "facebook_post"      -> {KW_facebook}
      [] p = "social" /\ k = "hashtags"           -> {KW_hashtag}
      [] p = "inline" /\ k = "key_findings"           -> {KW_1_KeyFindings}
      [] p = "inline" /\ k = "potential_observations" -> {KW_2_PotentialObservations}
      [] p = "inline" /\ k = "recommendations"        -> {KW_3_Recommendations}

\* the SEO and social parsers match on the lowercased line
Folded(p, line) == IF p \in {"seo", "social"} THEN Lower(line) ELSE line

\* line carries a keyword of section k
Mentions(p, line, k) == \E kw \in KeywordsOf(p, k) : Contains(Folded(p, line), kw)

IsHeadingLine(p, line) == \E k \in KeysOf(p) : Mentions(p, line, k)

\* the heading of section k appears somewhere in text t
HeadingAppears(p, t, k) ==
    \E i \in 1..Len(LinesOf(t)) : Mentions(p, LinesOf(t)[i], k)

\* the non-blank lines, stripped, after line i up to the next heading or the end
BodyAfter(p, ls, i) ==
    LET stops == {j \in (i + 1)..Len(ls) : IsHeadingLine(p, ls[j])}
        last  == IF stops = {} THEN Len(ls) ELSE SetMin(stops) - 1
    IN  StripNonEmpty(SubSeq(ls, i + 1, last))

\* exactly one line mentions section k, and it mentions no other section
HeadingIndex(p, ls, k) == CHOOSE i \in 1..Len(ls) : Mentions(p, ls[i], k)

OneHeadingEach(p, ls) ==
    \A k \in KeysOf(p) :
        /\ Cardinality({i \in 1..Len(ls) : Mentions(p, ls[i], k)}) = 1
        /\ \A k2 \in KeysOf(p) \ {k} : ~Mentions(p, ls[HeadingIndex(p, ls, k)], k2)

\* the four medical headings, once each and in the order of the prompt, each
\* followed by at least one non-blank body line
WellFormedMedReport(t) ==
    LET ls == LinesOf(t) IN
    /\ OneHeadingEach("med", ls)
    /\ \A a, b \in 1..4 :
          a < b => HeadingIndex("med", ls, MedKeys[a]) < HeadingIndex("med", ls, MedKeys[b])
    /\ \A k \in KeysOf("med") : BodyAfter("med", ls, HeadingIndex("med", ls, k)) # <<>>

\* C1: for every report text with all four medical headings present, each followed
\* by at least one non-blank body line, parse_medical_report returns all four keys
\* non-empty, each holding exactly the body lines between its heading and the next
\* heading (or the end), joined by newlines.  Read here in the parser's favour:
\* headings once each and in the prompt's order, body lines compared stripped.
C1_AllFourSectionsPopulated ==
    (ppc = "done" /\ parser = "med" /\ WellFormedMedReport(text)) =>
        \A k \in KeysOf("med") :
            /\ sections[k] # <<>>
            /\ sections[k] =
                   Join(NL, BodyAfter("med", LinesOf(text),
                                      HeadingIndex("med", LinesOf(text), k)))

\* C2: for every input text each report parser returns a mapping with exactly its
\* declared section keys, every key whose heading never appears in the input holds
\* its empty default, and for the empty input every section value is empty.
C2_DeclaredKeysAndDefaults ==
    ppc = "done" =>
        /\ DOMAIN sections = KeysOf(parser)
        /\ \A k \in KeysOf(parser) :
               ~HeadingAppears(parser, text, k) => sections[k] = <<>>
        /\ text = <<>> => \A k \in KeysOf(parser) : sections[k] = <<>>

\* a parse that filled one section and left another, whose heading is absent, empty
C2_Witness ==
    /\ ppc = "done"
    /\ \E k1, k2 \in KeysOf(parser) :
          /\ sections[k1] # <<>>
          /\ ~HeadingAppears(parser, text, k2)
          /\ sections[k2] = <<>>

(***************************************************************************)
(* Properties of the scan: which section is current, what is accumulated    *)
(***************************************************************************)
\* the section keys of each parser in the order its branches test them
KeyOrder(p) ==
    CASE p = "med"    -> MedKeys
      [] p = "seo"    -> <<"meta_title", "meta_description", "alternative_titles",
                           "keywords", "product_description">>
      [] p = "social" -> <<"instagram_captions", "twitter_posts", "facebook_post",
                           "hashtags">>
      [] p = "inline" -> <<"key_findings", "potential_observations",
                           "recommendations">>

\* the state of the parser's loop after the first i lines
ScanPrefix(p, ls, i) ==
    CASE p = "med"    -> MedScan(MedStart, SubSeq(ls, 1, i))
      [] p = "seo"    -> SeoScan(SeoStart, SubSeq(ls, 1, i))
      [] p = "social" -> SocialScan(SocialStart, SubSeq(ls, 1, i))
      [] p = "inline" -> InlineScan(InlineStart, SubSeq(ls, 1, i))

\* current_section after line i
CurAfter(p, ls, i) == ScanPrefix(p, ls, i).cur

\* what the parser returns for the text t
ParseOf(p, t) ==
    CASE p = "med"    -> parse_medical_report(t)
      [] p = "seo"    -> parse_seo_content(t)
      [] p = "social" -> parse_social_content(t)
      [] p = "inline" -> parse_inline_sections(t)

\* the places in the priority order of the sections whose keyword the line carries
MentionedRanks(p, line) ==
    {j \in 1..Len(KeyOrder(p)) : Mentions(p, line, KeyOrder(p)[j])}

\* C21: in each report parser, a line that contains two or more configured heading
\* keywords is treated as the heading of the keyword checked first in the parser's
\* fixed priority order, for every such line and regardless of the current section.
C21_FirstKeywordInPriorityWins ==
    ppc = "done" =>
        \A i \in 1..Len(LinesOf(text)) :
            Cardinality(MentionedRanks(parser, LinesOf(text)[i])) >= 2 =>
                CurAfter(parser, LinesOf(text), i) =
                    KeyOrder(parser)[SetMin(MentionedRanks(parser, LinesOf(text)[i]))]

\* a line with the keywords of two sections came while a later section was
\* current, and the scan went to the section tested first
C21_Witness ==
    /\ ppc = "done"
    /\ \E i \in 2..Len(LinesOf(text)) :
          /\ Cardinality(MentionedRanks(parser, LinesOf(text)[i])) >= 2
          /\ CurAfter(parser, LinesOf(text), i - 1) \notin
                 {"None", CurAfter(parser, LinesOf(text), i)}
          /\ CurAfter(parser, LinesOf(text), i) =
                 KeyOrder(parser)[SetMin(MentionedRanks(parser, LinesOf(text)[i]))]

\* the index of the first heading line, one past the end when there is none
FirstHeading(p, ls) ==
    LET hs == {i \in 1..Len(ls) : IsHeadingLine(p, ls[i])}
    IN  IF hs = {} THEN Len(ls) + 1 ELSE SetMin(hs)

\* C22: in each report parser, every line that appears before the first recognized
\* heading line is discarded: it appears in no section of the returned mapping,
\* for every input.  The returned mapping is the one the parser returns for the
\* text without those lines.
C22_LinesBeforeFirstHeadingDiscarded ==
    ppc = "done" =>
        sections =
            ParseOf(parser,
                    Join(NL, SubSeq(LinesOf(text),
                                    FirstHeading(parser, LinesOf(text)),
                                    Len(LinesOf(text)))))

\* a text with a non-blank line before its first heading was parsed and a section
\* was filled
C22_Witness ==
    /\ ppc = "done"
    /\ \E i \in 1..(FirstHeading(parser, LinesOf(text)) - 1) :
          Strip(LinesOf(text)[i]) # <<>>
    /\ FirstHeading(parser, LinesOf(text)) <= Len(LinesOf(text))
    /\ \E k \in KeysOf(parser) : sections[k] # <<>>

\* line i is read while a section is active and is neither blank nor a heading
IsBodyLine(p, ls, i) ==
    /\ Strip(ls[i]) # <<>>
    /\ ~IsHeadingLine(p, ls[i])
    /\ CurAfter(p, ls, i) # "None"

\* the line starts with one of the prefixes '1.' to '5.'
StartsWithMarker(line) == StartsWithAny(Strip(line), SocialNumberMarkers)

\* the sections whose value is a list of texts
ListKeys == {"alternative_titles", "keywords", "instagram_captions",
             "twitter_posts", "hashtags"}

\* the texts a line contributes to section k: itself, or for the keywords its
\* comma-separated parts and for the hashtags its '#'-separated parts
PiecesOf(k, line) ==
    CASE k = "keywords" -> StripNonEmpty(SplitOn(Strip(line), ","))
      [] k = "hashtags" -> StripNonEmpty(SplitOn(Strip(line), "#"))
      [] OTHER          -> <<Strip(line)>>

\* the line is in the value returned for section k
StoredIn(k, line) ==
    IF k \in ListKeys
    THEN \A n \in 1..Len(PiecesOf(k, line)) :
             \E j \in 1..Len(sections[k]) : sections[k][j] = PiecesOf(k, line)[n]
    ELSE Contains(sections[k], Strip(line))

\* C24: for inputs missing one or more headings, or with headings in any order,
\* every heading that is present has its key populated: each non-blank,
\* non-heading body line read while a section is active ends up in that section's
\* output (a heading line flushes the accumulator into whichever section was
\* active, the end of the scan flushes the final accumulator into whichever
\* section was last active).  Lines that start with a number marker are left to
\* C26.
C24_BodyLinesReachTheirSection ==
    ppc = "done" =>
        \A i \in 1..Len(LinesOf(text)) :
            (IsBodyLine(parser, LinesOf(text), i)
             /\ ~StartsWithMarker(LinesOf(text)[i])) =>
                StoredIn(CurAfter(parser, LinesOf(text), i), LinesOf(text)[i])

\* some body line read under section k carries the text of this line
ReadUnder(p, ls, k, line) ==
    \E j \in 1..Len(ls) :
        /\ IsBodyLine(p, ls, j)
        /\ CurAfter(p, ls, j) = k
        /\ Contains(Strip(ls[j]), Strip(line))

\* C25: in each report parser, the text stored for a section consists only of
\* lines that were read while that section was the current section: switching to
\* a new heading (including the first heading of the template when it occurs after
\* other sections) clears the accumulator, so no line read under one section is
\* ever stored in a different section.
C25_NoLineStoredInAnotherSection ==
    ppc = "done" =>
        \A i \in 1..Len(LinesOf(text)) :
            IsBodyLine(parser, LinesOf(text), i) =>
                \A k \in KeysOf(parser) \ {CurAfter(parser, LinesOf(text), i)} :
                    ~ReadUnder(parser, LinesOf(text), k, LinesOf(text)[i]) =>
                        ~StoredIn(k, LinesOf(text)[i])

\* a numbered-list marker with nothing else: digits and a full stop
IsBareMarker(line) ==
    /\ Len(line) >= 2
    /\ line[Len(line)] = "."
    /\ \A j \in 1..(Len(line) - 1) : line[j] \in {"0","1","2","3","4","5","6","7","8","9"}

\* what the loop has gathered for the current section after the first i lines
Gathered(p, ls, i) ==
    IF p = "inline"
    THEN ScanPrefix(p, ls, i).sections[CurAfter(p, ls, i)]
    ELSE ScanPrefix(p, ls, i).content

\* what it has gathered once the line is appended to it
WithLine(p, gathered, line) ==
    IF p = "inline" THEN gathered \o Strip(line) \o NL
    ELSE Append(gathered, Strip(line))

\* C26: within an active section, a non-heading line is left out of the
\* accumulator only when it is a bare numbered-list marker (such as '1.' or '2.'
\* with nothing else); a line that starts with a number marker but carries body
\* text (e.g. '1. The image shows ...') is appended to the current section.
C26_OnlyBareMarkersLeftOut ==
    ppc = "done" =>
        \A i \in 1..Len(LinesOf(text)) :
            (IsBodyLine(parser, LinesOf(text), i)
             /\ ~IsBareMarker(Strip(LinesOf(text)[i]))) =>
                Gathered(parser, LinesOf(text), i) =
                    WithLine(parser, Gathered(parser, LinesOf(text), i - 1),
                             LinesOf(text)[i])

\* the index of the template heading k in the lines
TemplateIndex(ls, n) == CHOOSE i \in 1..Len(ls) : Strip(ls[i]) = SeoTemplate[n]

\* the five heading lines of the prompt, once each and in its order, every other
\* line free of heading keywords, and at least one non-blank line after each
\* heading
WellFormedSeoText(t) ==
    LET ls == LinesOf(t) IN
    /\ \A n \in 1..5 :
          Cardinality({i \in 1..Len(ls) : Strip(ls[i]) = SeoTemplate[n]}) = 1
    /\ \A n \in 1..4 : TemplateIndex(ls, n) < TemplateIndex(ls, n + 1)
    /\ \A i \in 1..Len(ls) :
          IsHeadingLine("seo", ls[i]) => \E n \in 1..5 : Strip(ls[i]) = SeoTemplate[n]
    /\ \A n \in 1..5 :
          \E i \in (TemplateIndex(ls, n) + 1)..
                   (IF n = 5 THEN Len(ls) ELSE TemplateIndex(ls, n + 1) - 1) :
              Strip(ls[i]) # <<>>

\* the place in the template of the heading that line i follows
FollowedHeading(ls, i) ==
    SetMax({n \in 1..5 : TemplateIndex(ls, n) < i})

\* C27: for every generated SEO text in which the five heading lines requested by
\* the prompt appear in template order ('Meta Title:', 'Meta Description:',
\* 'Alternative Titles:', 'Keywords:', 'Product Description:'), each followed by
\* at least one body line containing no heading keyword, parse_seo_content returns
\* all five fields non-empty and places each body line in the field of the heading
\* it follows.
C27_SeoTemplateFillsAllFields ==
    (ppc = "done" /\ parser = "seo" /\ WellFormedSeoText(text)) =>
        /\ \A k \in KeysOf("seo") : sections[k] # <<>>
        /\ \A i \in 1..Len(LinesOf(text)) :
               (/\ i > TemplateIndex(LinesOf(text), 1)
                /\ Strip(LinesOf(text)[i]) # <<>>
                /\ ~IsHeadingLine("seo", LinesOf(text)[i])) =>
                   StoredIn(KeyOrder("seo")[FollowedHeading(LinesOf(text), i)],
                            LinesOf(text)[i])

(***************************************************************************)
(* text_service.enhance_alt_text                                            *)
(***************************************************************************)
\* most words in an alt text or in a backend response
MaxWords == 7
\* largest min_words tried (the default, 6, is among 1..MaxMinWords)
MaxMinWords == 7

\* the default of the parameter min_words
DefaultMinWords == 6

\* the clause appended when the expansion is still too short
FillerClause == <<" ","w","i","t","h"," ","v","a","r","i","o","u","s"," ","d","e","t","a","i","l","s"," ","a","n","d"," ","e","l","e","m","e","n","t","s"," ","v","i","s","i","b","l","e"," ","i","n"," ","t","h","e"," ","s","c","e","n","e">>

format_success_response(data) == [success |-> TRUE, data |-> data]

format_error_response(message, code) ==
    [success |-> FALSE, error |-> [message |-> message, code |-> code]]

\* n words "w", led by lead and separated by gap
WordsText(n, lead, gap) ==
    lead \o Join(gap, [i \in 1..n |-> <<"w">>])

SampleTexts ==
    {WordsText(n, lead, gap) :
        n \in 0..MaxWords, lead \in {<<>>, SP}, gap \in {SP, <<" ","\t">>}}

AltTexts == SampleTexts

\* what the generative backend does: no API key (get_gemini_client raises),
\* generate_content raises, or generate_content returns a text
Backends ==
    {[kind |-> "no_key", text |-> <<>>], [kind |-> "call_fails", text |-> <<>>]}
    \cup {[kind |-> "returns", text |-> t] : t \in SampleTexts}

\* a slip: the threshold test with > instead of >=
enhance_alt_text_strict(a, m, b) ==
    IF Len(SplitWords(a)) > m THEN
        [calls |-> 0, result |-> format_success_response([enhanced_alt_text |-> a])]
    ELSE IF b.kind = "no_key" THEN
        [calls |-> 0, result |-> format_success_response([enhanced_alt_text |-> a])]
    ELSE IF b.kind = "call_fails" THEN
        [calls |-> 1, result |-> format_success_response([enhanced_alt_text |-> a])]
    ELSE
        LET e == Strip(b.text)
            f == IF Len(SplitWords(e)) < m THEN e \o FillerClause ELSE e
        IN  [calls |-> 1, result |-> format_success_response([enhanced_alt_text |-> f])]

\* enhance_alt_text(alt_text, min_words) against backend b: the result returned
\* and the number of generate_content calls issued
enhance_alt_text(a, m, b) ==
    IF Len(SplitWords(a)) >= m THEN
        \* already long enough: returned as it is
        [calls |-> 0, result |-> format_success_response([enhanced_alt_text |-> a])]
    ELSE IF b.kind = "no_key" THEN
        \* get_gemini_client raises; except: the original text as fallback
        [calls |-> 0, result |-> format_success_response([enhanced_alt_text |-> a])]
    ELSE IF b.kind = "call_fails" THEN
        \* generate_content raises; except: the original text as fallback
        [calls |-> 1, result |-> format_success_response([enhanced_alt_text |-> a])]
    ELSE
        LET e == Strip(b.text)
            f == IF Len(SplitWords(e)) < m THEN e \o FillerClause ELSE e
        IN  [calls |-> 1, result |-> format_success_response([enhanced_alt_text |-> f])]

InitEnhance ==
    /\ alt_text \in AltTexts
    /\ min_words \in 1..MaxMinWords
    /\ backend \in Backends
    /\ calls = 0
    /\ enhanced = <<>>
    /\ epc = "start"

IdleEnhance ==
    /\ alt_text = <<>> /\ min_words = 0 /\ backend = <<>>
    /\ calls = 0 /\ enhanced = <<>> /\ epc = "idle"

EnhanceAltText ==
    /\ epc = "start"
    /\ LET r == enhance_alt_text(alt_text, min_words, backend) IN
          /\ calls' = r.calls
          /\ enhanced' = r.result
    /\ epc' = "done"
    /\ UNCHANGED <<alt_text, min_words, backend, parseVars, fileVars, upVars, imgVars, svcVars, procVars, ttsVars>>

NextEnhance == EnhanceAltText

\* the number of whitespace-delimited words of s: the positions where a word starts
WordCount(s) ==
    Cardinality({i \in 1..Len(s) : s[i] \notin WS /\ (i = 1 \/ s[i - 1] \in WS)})

\* C5: for every alt_text with fewer than min_words words and every outcome of the
\* generative backend, enhance_alt_text issues exactly one expansion call and
\* returns a text with at least min_words words.
C5_OneCallAndLongEnough ==
    (epc = "done" /\ WordCount(alt_text) < min_words) =>
        /\ calls = 1
        /\ WordCount(enhanced.data.enhanced_alt_text) >= min_words

\* C6: for every alt_text with at least min_words words, enhance_alt_text returns a
\* Success result whose enhanced_alt_text is the input unchanged, and issues no call
\* to the generative backend.
C6_LongEnoughUnchanged ==
    (epc = "done" /\ WordCount(alt_text) >= min_words) =>
        /\ enhanced.success
        /\ enhanced.data.enhanced_alt_text = alt_text
        /\ calls = 0

\* an alt text of exactly min_words words, the default threshold, went through
\* against a backend that would have answered
C6_Witness ==
    /\ epc = "done"
    /\ min_words = DefaultMinWords
    /\ WordCount(alt_text) = min_words
    /\ backend.kind = "returns"
    /\ enhanced.data.enhanced_alt_text = alt_text

(***************************************************************************)
(* file_utils.allowed_file, app.allowed_file, file_utils.validate_image     *)
(***************************************************************************)
\* longest filename enumerated character by character
MaxNameLen == 5

EXT_png  == <<"p","n","g">>
EXT_jpg  == <<"j","p","g">>
EXT_jpeg == <<"j","p","e","g">>
EXT_gif  == <<"g","i","f">>
EXT_tiff == <<"t","i","f","f">>
EXT_dcm  == <<"d","c","m">>

\* file_utils.DEFAULT_EXTENSIONS, config.ALLOWED_EXTENSIONS, app.ALLOWED_EXTENSIONS
DEFAULT_EXTENSIONS == {EXT_png, EXT_jpg, EXT_jpeg, EXT_gif}
ALLOWED_EXTENSIONS == {EXT_png, EXT_jpg, EXT_jpeg, EXT_gif}
\* main_routes.ALLOWED_MEDICAL_EXTENSIONS
ALLOWED_MEDICAL_EXTENSIONS == {EXT_png, EXT_jpg, EXT_jpeg, EXT_gif, EXT_tiff, EXT_dcm}

\* the argument allowed_extensions: None, or a set
NoExtensions == [given |-> FALSE, exts |-> {}]
GivenExtensions(S) == [given |-> TRUE, exts |-> S]

\* filename.rsplit('.', 1)[1], for a filename that holds a '.'
AfterLastDot(f) ==
    LET dots == {i \in 1..Len(f) : f[i] = "."}
    IN  SubSeq(f, SetMax(dots) + 1, Len(f))

\* a slip: the extension compared without .lower()
allowed_file_case_sensitive(f, a) ==
    IF f = <<>> THEN FALSE
    ELSE LET extensions == IF a.given THEN a.exts ELSE DEFAULT_EXTENSIONS IN
         IF ~Contains(f, <<".">>) THEN FALSE
         ELSE AfterLastDot(f) \in extensions

\* file_utils.allowed_file(filename, allowed_extensions)
allowed_file(f, a) ==
    IF f = <<>> THEN FALSE
    ELSE LET extensions == IF a.given THEN a.exts ELSE DEFAULT_EXTENSIONS IN
         IF ~Contains(f, <<".">>) THEN FALSE
         ELSE Lower(AfterLastDot(f)) \in extensions

\* app.allowed_file(filename)
app_allowed_file(f) ==
    Contains(f, <<".">>) /\ Lower(AfterLastDot(f)) \in ALLOWED_EXTENSIONS

\* the number of header bytes validate_image reads
HeaderBytes == 512

\* imghdr.what(None, header): the name of the container format the header bytes
\* announce, NoFormat (None) when there is none; magic is what the stream starts with
FMT_bmp == <<"b","m","p">>
Formats == {EXT_png, EXT_jpeg, EXT_gif, EXT_tiff, FMT_bmp}
NoFormat == <<>>
imghdr_what(magic, headerLen) ==
    IF headerLen > 0 /\ magic \in Formats THEN magic ELSE NoFormat

\* lines 56-64: not format -> False; 'jpeg' -> 'jpg'; membership in ALLOWED_EXTENSIONS
FormatVerdict(fmt) ==
    IF fmt = NoFormat THEN FALSE
    ELSE LET norm == IF fmt = EXT_jpeg THEN EXT_jpg ELSE fmt
         IN  norm \in ALLOWED_EXTENSIONS \/ (<<".">> \o norm) \in ALLOWED_EXTENSIONS

\* input_data.read(n): the bytes from pos on, at most n; raises on a closed stream
StreamRead(s, n) ==
    LET k == IF s.len - s.pos < n THEN s.len - s.pos ELSE n
    IN  [got |-> k,
         stream |-> [s EXCEPT !.pos = s.pos + k,
                              !.maxread = IF s.pos + k > @ THEN s.pos + k ELSE @]]

\* input_data.seek(p)
StreamSeek(s, p) == [s EXCEPT !.pos = p]

\* a slip: the stream is not rewound after the header is read
validate_image_no_rewind(s) ==
    IF s.closed THEN [ok |-> FALSE, stream |-> s]
    ELSE
        LET r   == StreamRead(s, HeaderBytes)
            fmt == imghdr_what(s.magic, r.got)
        IN  [ok |-> FormatVerdict(fmt), stream |-> r.stream]

\* file_utils.validate_image(input_data) on a file stream: the value returned and
\* the stream as it is left
validate_image(s) ==
    IF s.closed THEN
        \* read raises ValueError; except: return False
        [ok |-> FALSE, stream |-> s]
    ELSE
        LET r   == StreamRead(s, HeaderBytes)
            s2  == StreamSeek(r.stream, 0)
            fmt == imghdr_what(s.magic, r.got)
        IN  [ok |-> FormatVerdict(fmt), stream |-> s2]

\* the filenames tried: every short name over a few characters, and some samples
NameChars == {"p", "n", "g", "G", "."}
SampleNames ==
    {<<"p","h","o","t","o",".","J","P","G">>, <<"p","h","o","t","o">>, <<"p","h","o","t","o",".","e","x","e">>, <<"a",".","b",".","g","i","f">>, <<"x",".","j","p","e","g">>,
     <<"s","c","a","n",".","d","c","m">>, <<"s","c","a","n",".","T","I","F","F">>, <<"a","r","c","h","i","v","e",".","p","n","g",".">>}
FileNames == SeqsUpTo(NameChars, MaxNameLen) \cup SampleNames

AllowedChoices ==
    {NoExtensions, GivenExtensions(ALLOWED_MEDICAL_EXTENSIONS), GivenExtensions({})}

\* the sizes of the uploads whose header is sniffed
StreamLens == {0, 1, HeaderBytes - 1, HeaderBytes, HeaderBytes + 1, 2 * HeaderBytes}
MAGIC_text == <<"t","e","x","t">>
Magics == Formats \cup {MAGIC_text}

Streams ==
    {[magic |-> m, len |-> l, pos |-> 0, maxread |-> 0, closed |-> c] :
        m \in Magics, l \in StreamLens, c \in BOOLEAN}

NoStream == [magic |-> <<>>, len |-> 0, pos |-> 0, maxread |-> 0, closed |-> TRUE]

InitFile ==
    \/ /\ fpc = "name"
       /\ filename \in FileNames
       /\ allowed \in AllowedChoices
       /\ stream = NoStream
       /\ verdict = "none"
    \/ /\ fpc = "stream"
       /\ filename = <<>>
       /\ allowed = NoExtensions
       /\ stream \in Streams
       /\ verdict = "none"

IdleFile ==
    /\ filename = <<>> /\ allowed = NoExtensions /\ verdict = "none"
    /\ stream = NoStream /\ fpc = "idle"

AllowedFile ==
    /\ fpc = "name"
    /\ verdict' = [fn |-> "allowed_file", ok |-> allowed_file(filename, allowed)]
    /\ fpc' = "done"
    /\ UNCHANGED <<filename, allowed, stream, parseVars, enhVars, upVars, imgVars, svcVars, procVars, ttsVars>>

AppAllowedFile ==
    /\ fpc = "name" /\ ~allowed.given
    /\ verdict' = [fn |-> "app.allowed_file", ok |-> app_allowed_file(filename)]
    /\ fpc' = "done"
    /\ UNCHANGED <<filename, allowed, stream, parseVars, enhVars, upVars, imgVars, svcVars, procVars, ttsVars>>

ValidateImage ==
    /\ fpc = "stream"
    /\ LET r == validate_image(stream) IN
          /\ verdict' = [fn |-> "validate_image", ok |-> r.ok]
          /\ stream' = r.stream
    /\ fpc' = "done"
    /\ UNCHANGED <<filename, allowed, parseVars, enhVars, upVars, imgVars, svcVars, procVars, ttsVars>>

NextFile == AllowedFile \/ AppAllowedFile \/ ValidateImage

\* the allow-set in force for the call
AllowSetOf(a) == IF a.given THEN a.exts ELSE {EXT_png, EXT_jpg, EXT_jpeg, EXT_gif}

\* C7: allowed_file(filename, allowed) returns true exactly when filename is
\* non-empty, contains a '.', and the text after its last '.', lowercased, is a
\* member of the allow-set (default png, jpg, jpeg, gif); otherwise it returns
\* false.
C7_AllowedFileExact ==
    (fpc = "done" /\ verdict.fn \in {"allowed_file", "app.allowed_file"}) =>
        (verdict.ok <=>
            /\ filename # <<>>
            /\ \E e \in AllowSetOf(allowed) :
                  \E i \in 1..Len(filename) :
                      /\ filename[i] = "."
                      /\ \A j \in (i + 1)..Len(filename) : filename[j] # "."
                      /\ Len(e) = Len(filename) - i
                      /\ \A j \in 1..Len(e) : LowerChar(filename[i + j]) = e[j])

\* "photo.JPG" was accepted under the default allow-set
C7_Witness ==
    /\ fpc = "done"
    /\ verdict.fn = "allowed_file"
    /\ filename = <<"p","h","o","t","o",".","J","P","G">>
    /\ ~allowed.given
    /\ verdict.ok

\* the bytes a read of the whole stream would now return: those from pos to the end
RestOfStream(s) == [from |-> s.pos, count |-> s.len - s.pos]

\* C9: validate_image on a file stream reads at most the first 512 bytes and,
\* whatever it returns, leaves the stream positioned so that a subsequent read
\* yields the full uploaded content.
C9_HeaderOnlyAndRewound ==
    (fpc = "done" /\ verdict.fn = "validate_image") =>
        /\ verdict.ok \in BOOLEAN
        /\ stream.maxread <= 512
        /\ RestOfStream(stream) = [from |-> 0, count |-> stream.len]

\* an upload longer than the header was sniffed, accepted, and its stream rewound
C9_Witness ==
    /\ fpc = "done"
    /\ verdict.fn = "validate_image"
    /\ verdict.ok
    /\ stream.len > 512
    /\ stream.maxread = 512
    /\ stream.pos = 0

(***************************************************************************)
(* main_routes: the upload handlers and the upload folder they share        *)
(***************************************************************************)
\* requests handled at the same time
NumRequests == 2
Requests == 1..NumRequests

Handlers ==
    {"social_media", "seo", "analyze_general", "analyze_medical_image_route",
     "image_analyzer", "analyze_social_media", "advanced_analysis"}

\* the handlers that call validate_image(file.stream) before saving
Sniffs(h) == h \in {"seo", "analyze_general"}

\* the handlers whose file.save(filepath) stands inside the try ... finally
SaveInsideTry(h) ==
    h \in {"social_media", "analyze_general", "analyze_medical_image_route",
           "analyze_social_media"}

\* the handlers whose os.remove in the finally block is itself guarded by try/except
RemoveGuarded(h) == h # "analyze_social_media"

\* werkzeug's secure_filename as the handlers use it: path separators become
\* spaces, whitespace runs become "_", characters outside [A-Za-z0-9_.-] are
\* dropped, leading and trailing "." and "_" are stripped
SafeChars ==
    {UpperChars[i] : i \in 1..Len(UpperChars)} \cup
    {LowerChars[i] : i \in 1..Len(LowerChars)} \cup
    {"0", "1", "2", "3", "4", "5", "6", "7", "8", "9", "_", ".", "-"}

StripChars(s, cs) ==
    LET keep == {i \in 1..Len(s) : s[i] \notin cs}
    IN  IF keep = {} THEN <<>> ELSE SubSeq(s, SetMin(keep), SetMax(keep))

secure_filename(f) ==
    LET spaced == [i \in 1..Len(f) |-> IF f[i] = "/" THEN " " ELSE f[i]]
        joined == Join(<<"_">>, SplitWords(spaced))
        ascii  == SelectSeq(joined, LAMBDA c : c \in SafeChars)
    IN  StripChars(ascii, {".", "_"})

\* the uploads tried: the declared filename and what the bytes are
UploadNames == {<<>>, <<"a",".","p","n","g">>, <<".",".","/","a",".","p","n","g">>, <<"s",".","d","c","m">>, <<"n","o","t","e","s">>}
UploadMagics == {EXT_png, FMT_bmp, MAGIC_text}

\* the formats PIL's Image.open can read, by content
PilReadable(magic) == magic \in Formats

UploadPaths == {secure_filename(n) : n \in UploadNames} \ {<<>>}

NoFile == [exists |-> FALSE, owner |-> 0, magic |-> <<>>, from |-> 0, complete |-> FALSE]

NoResponse == [status |-> 0, success |-> "absent", error |-> "", code |-> ""]

Response(status, success, error, code) ==
    [status |-> status, success |-> success, error |-> error, code |-> code]

\* the 400 answers of each handler, by the check that failed
RejectResponse(h, why) ==
    LET msg ==
            CASE why = "no_file" ->
                     IF h = "analyze_medical_image_route" THEN "No file uploaded"
                     ELSE "No image file provided"
              [] why = "empty_name" ->
                     IF h = "analyze_social_media" THEN "No image selected"
                     ELSE "No selected file"
              [] why = "bad_ext" -> "Invalid file type"
              [] why = "bad_image" -> "Invalid image file"
        code ==
            CASE h \in {"seo", "image_analyzer"} ->
                     (CASE why = "no_file" ->
                               IF h = "seo" THEN "NO_IMAGE" ELSE "NO_INPUT"
                        [] why = "empty_name" -> "EMPTY_FILE"
                        [] why = "bad_ext" -> "INVALID_TYPE"
                        [] why = "bad_image" -> "INVALID_IMAGE")
              [] h = "analyze_social_media" ->
                     (IF why = "bad_ext" THEN "INVALID_FILE_TYPE" ELSE "NO_FILE")
              [] OTHER -> ""
        success == IF h = "analyze_general" THEN "absent" ELSE "false"
    IN  Response(400, success, msg, code)

\* the answer when processing raised
ErrorResponse(h) ==
    CASE h \in {"seo", "image_analyzer"} ->
             Response(500, "false", "Error processing image", "PROCESSING_ERROR")
      [] h = "analyze_social_media" ->
             Response(500, "false", "exception text", "PROCESSING_ERROR")
      [] h = "analyze_general" ->
             Response(500, "absent", "Error processing image", "")
      [] OTHER -> Response(500, "false", "Error processing image", "")

\* the answer of the outer except, reached when file.save raises outside the try
OuterErrorResponse(h) ==
    CASE h \in {"seo", "image_analyzer"} ->
             Response(500, "false", "An unexpected error occurred", "SERVER_ERROR")
      [] h = "analyze_social_media" ->
             Response(500, "false", "exception text", "PROCESSING_ERROR")
      [] h = "analyze_general" ->
             Response(500, "absent", "An unexpected error occurred", "")
      [] OTHER -> Response(500, "false", "exception text", "")

\* the answer when every step succeeded
SuccessResponse(h) ==
    IF h = "analyze_general" THEN Response(200, "absent", "", "")
    ELSE Response(200, "true", "", "")

\* med_service.analyze_medical_image caught the failure and returned
\* format_error_response(...); the route returns jsonify(result)
MedicalFailureResponse(code) == Response(200, "false", "error object", code)

UploadStream(magic) ==
    [magic |-> magic, len |-> 2 * HeaderBytes, pos |-> 0, maxread |-> 0,
     closed |-> FALSE]

NewRequest(h, present, name, magic) ==
    [handler |-> h, hasFile |-> present, name |-> name, stream |-> UploadStream(magic),
     path |-> <<>>, pc |-> "received", resp |-> NoResponse, opened |-> NoFile,
     wrote |-> FALSE, modelCalled |-> FALSE]

\* a request with no file part carries no filename and no bytes
RequestInputs ==
    {NewRequest(h, TRUE, n, m) : h \in Handlers, n \in UploadNames, m \in UploadMagics}
    \cup {NewRequest(h, FALSE, <<>>, MAGIC_text) : h \in Handlers}

InitUpload ==
    /\ fs = [p \in UploadPaths |-> NoFile]
    /\ req \in [Requests -> RequestInputs]

IdleUpload == fs = <<>> /\ req = <<>>

Reject(r, why) ==
    req' = [req EXCEPT ![r].pc = "returned",
                       ![r].resp = RejectResponse(req[r].handler, why)]

\* the checks before the file is stored, and the path it will be stored at
Validate(r) ==
    LET q == req[r] IN
    /\ q.pc = "received"
    /\ IF ~q.hasFile THEN Reject(r, "no_file")
       ELSE IF q.name = <<>> THEN Reject(r, "empty_name")
       ELSE IF ~allowed_file(q.name, NoExtensions) THEN Reject(r, "bad_ext")
       ELSE IF Sniffs(q.handler) /\ ~validate_image(q.stream).ok THEN
            req' = [req EXCEPT ![r].pc = "returned",
                               ![r].stream = validate_image(q.stream).stream,
                               ![r].resp = RejectResponse(q.handler, "bad_image")]
       ELSE req' = [req EXCEPT
                       ![r].pc = "save",
                       ![r].stream = IF Sniffs(q.handler)
                                     THEN validate_image(q.stream).stream ELSE @,
                       ![r].path = secure_filename(q.name)]
    /\ UNCHANGED <<fs, parseVars, enhVars, fileVars, imgVars, svcVars, procVars, ttsVars>>

\* what file.save(filepath) leaves at the path: the stream from its position on
StoredFile(r, s, whole) ==
    [exists |-> TRUE, owner |-> r, magic |-> s.magic, from |-> s.pos,
     complete |-> whole]

\* file.save(filepath): it stores the file, or raises before creating it, or
\* raises after creating it and writing a part
Save(r) ==
    LET q == req[r]
        raised == IF SaveInsideTry(q.handler)
                  THEN [req EXCEPT ![r].pc = "cleanup",
                                   ![r].resp = ErrorResponse(q.handler)]
                  ELSE [req EXCEPT ![r].pc = "returned",
                                   ![r].resp = OuterErrorResponse(q.handler)]
    IN
    /\ q.pc = "save"
    /\ \E outcome \in {"stored", "raises_before", "raises_midway"} :
          CASE outcome = "stored" ->
                   /\ fs' = [fs EXCEPT ![q.path] = StoredFile(r, q.stream, TRUE)]
                   /\ req' = [req EXCEPT ![r].pc = "open", ![r].wrote = TRUE]
            [] outcome = "raises_midway" ->
                   /\ fs' = [fs EXCEPT ![q.path] = StoredFile(r, q.stream, FALSE)]
                   /\ req' = [raised EXCEPT ![r].wrote = TRUE]
            [] outcome = "raises_before" ->
                   /\ fs' = fs
                   /\ req' = raised
    /\ UNCHANGED <<parseVars, enhVars, fileVars, imgVars, svcVars, procVars, ttsVars>>

\* Image.open(filepath), load_image(filepath), or the Image.open inside
\* med_service.analyze_medical_image: reads what is at the path now
Open(r) ==
    LET q == req[r]
        f == fs[q.path]
    IN
    /\ q.pc = "open"
    /\ IF f.exists /\ f.complete /\ f.from = 0 /\ PilReadable(f.magic)
       THEN req' = [req EXCEPT ![r].pc = "process", ![r].opened = f]
       ELSE req' = [req EXCEPT
                       ![r].pc = "cleanup",
                       ![r].resp =
                           IF q.handler = "analyze_medical_image_route"
                           THEN MedicalFailureResponse("INVALID_IMAGE")
                           ELSE ErrorResponse(q.handler)]
    /\ UNCHANGED <<fs, parseVars, enhVars, fileVars, imgVars, svcVars, procVars, ttsVars>>

\* the caption, detector and generative calls on the opened image
Process(r) ==
    LET q == req[r] IN
    /\ q.pc = "process"
    /\ \E ok \in BOOLEAN :
          req' = [req EXCEPT
                     ![r].pc = "cleanup",
                     ![r].modelCalled = TRUE,
                     ![r].resp =
                         IF ok THEN SuccessResponse(q.handler)
                         ELSE IF q.handler = "analyze_medical_image_route"
                              THEN MedicalFailureResponse("ANALYSIS_ERROR")
                              ELSE ErrorResponse(q.handler)]
    /\ UNCHANGED <<fs, parseVars, enhVars, fileVars, imgVars, svcVars, procVars, ttsVars>>

\* finally: if os.path.exists(filepath)
CleanupCheck(r) ==
    LET q == req[r] IN
    /\ q.pc = "cleanup"
    /\ req' = [req EXCEPT ![r].pc = IF fs[q.path].exists THEN "remove" ELSE "returned"]
    /\ UNCHANGED <<fs, parseVars, enhVars, fileVars, imgVars, svcVars, procVars, ttsVars>>

\* finally: os.remove(filepath); it raises when the file is gone by now
CleanupRemove(r) ==
    LET q == req[r] IN
    /\ q.pc = "remove"
    /\ IF fs[q.path].exists
       THEN /\ fs' = [fs EXCEPT ![q.path] = NoFile]
            /\ req' = [req EXCEPT ![r].pc = "returned"]
       ELSE /\ fs' = fs
            /\ req' = [req EXCEPT
                          ![r].pc = "returned",
                          ![r].resp = IF RemoveGuarded(q.handler) THEN @
                                      ELSE OuterErrorResponse(q.handler)]
    /\ UNCHANGED <<parseVars, enhVars, fileVars, imgVars, svcVars, procVars, ttsVars>>

NextUpload ==
    \E r \in Requests :
        \/ Validate(r)
        \/ Save(r)
        \/ Open(r)
        \/ Process(r)
        \/ CleanupCheck(r)
        \/ CleanupRemove(r)

(***************************************************************************)
(* Properties of the upload handlers                                        *)
(***************************************************************************)
\* the file request r stored is still in the upload folder
OwnFileLeft(r) ==
    /\ req[r].wrote
    /\ fs[req[r].path].exists
    /\ fs[req[r].path].owner = r

\* C3: in every upload handler, once the uploaded file has been written to the
\* upload folder, that file no longer exists when the handler returns, on every
\* exit path: success, handled processing error, failure of file.save itself, or
\* unexpected fault.
C3_UploadRemovedOnReturn ==
    \A r \in Requests : req[r].pc = "returned" => ~OwnFileLeft(r)

\* C4: for any two upload requests handled concurrently, each request processes
\* exactly the bytes it uploaded itself, and the file a request stored is never
\* overwritten or deleted by the other request before the storing request has
\* finished processing it.
C4_UploadOwnedByItsRequest ==
    \A r \in Requests :
        /\ req[r].opened.exists => req[r].opened.owner = r
        /\ req[r].pc \in {"open", "process"} =>
               (fs[req[r].path].exists /\ fs[req[r].path].owner = r)

\* the declared filename ends in .tiff or .dcm, in any letter case
HasMedicalOnlyExtension(name) ==
    \E e \in {EXT_tiff, EXT_dcm} :
        /\ Len(name) > Len(e)
        /\ name[Len(name) - Len(e)] = "."
        /\ \A j \in 1..Len(e) : LowerChar(name[Len(name) - Len(e) + j]) = e[j]

\* C8: the medical upload endpoint accepts filenames with extension tiff or dcm:
\* an upload named with a .tiff or .dcm extension is not rejected with the 400
\* 'Invalid file type' response.
C8_MedicalAcceptsTiffAndDcm ==
    \A r \in Requests :
        (/\ req[r].handler = "analyze_medical_image_route"
         /\ req[r].hasFile
         /\ HasMedicalOnlyExtension(req[r].name)) =>
            ~(req[r].resp.status = 400 /\ req[r].resp.error = "Invalid file type")

\* the upload passes every validator check: a file part with a non-empty filename,
\* an allowed extension, and header bytes that sniff as a supported image format
PassesAllChecks(q) ==
    /\ q.hasFile
    /\ q.name # <<>>
    /\ \E e \in {EXT_png, EXT_jpg, EXT_jpeg, EXT_gif, EXT_tiff, EXT_dcm} :
          /\ Len(q.name) > Len(e)
          /\ q.name[Len(q.name) - Len(e)] = "."
          /\ \A j \in 1..Len(e) : LowerChar(q.name[Len(q.name) - Len(e) + j]) = e[j]
    /\ q.stream.magic \in {EXT_png, EXT_jpeg, EXT_gif}

\* C10: in every feature handler no upload is written to the upload folder and no
\* caption-model, detector or generative call is made for it unless it has first
\* passed all validator checks (file present, non-empty filename, allowed
\* extension, header bytes sniffing as a supported image format).
C10_ValidatedBeforeStoredOrAnalysed ==
    \A r \in Requests :
        (req[r].wrote \/ req[r].modelCalled) => PassesAllChecks(req[r])

\* the handler returned at one of its checks on the upload, before choosing a
\* path to store it at
RejectedAtValidation(r) ==
    /\ req[r].pc = "returned"
    /\ req[r].path = <<>>
    /\ ~req[r].wrote

\* C17: every rejection of an upload for a validation reason (no file part, empty
\* filename, unsupported extension, unrecognized image format) is answered with
\* HTTP status 400 and a body that carries a machine-readable error code, in every
\* upload handler.
C17_RejectionCarriesCode ==
    \A r \in Requests :
        RejectedAtValidation(r) =>
            (req[r].resp.status = 400 /\ req[r].resp.code # "")

\* C30: no handler answers with HTTP status 200 and a body whose success field is
\* false: whenever a service-level operation returns a Failure result to a handler
\* that must have it (in particular analyze_medical_image inside
\* analyze_medical_image_route), the HTTP response carries an error status (4xx or
\* 5xx).
C30_FailureNeverWithStatus200 ==
    \A r \in Requests :
        req[r].pc = "returned" =>
            ~(req[r].resp.status = 200 /\ req[r].resp.success = "false")

(***************************************************************************)
(* image_service.ImageProcessor: detect_objects, generate_alt_text,         *)
(* generate_alt_text_general                                                *)
(***************************************************************************)
\* most detections the detector reports for one image
MaxDetections == 3

\* a score is a probability, counted in units of 1/ScoreOne
ScoreOne == 100000
\* the confidence threshold 0.7
Threshold == (7 * ScoreOne) \div 10
\* round(confidence * 100, 2) counts hundredths of a percent: PercentOne of them
\* make the confidence 1.0
PercentOne == 100

\* round(x, 2) of x = score * 100, in hundredths; halves go to the even neighbour
RoundPercent(score) ==
    LET q == score \div 10
        r == score % 10
    IN  IF r < 5 THEN q
        ELSE IF r > 5 THEN q + 1
        ELSE IF q % 2 = 0 THEN q ELSE q + 1

\* the steps of detect_objects that can raise
DetectFaults == {"processor", "inference", "post_process", "id2label"}

\* post_process_object_detection(outputs, threshold=0.7): the detections whose
\* score is above the threshold, in the detector's order; src is the position of
\* the detection in the detector's output
PostProcess(dets) ==
    LET indexed == [i \in 1..Len(dets) |->
                       [label |-> dets[i].label, score |-> dets[i].score, src |-> i]]
    IN  SelectSeq(indexed, LAMBDA d : d.score > Threshold)

\* lines 153-161: one {'name', 'confidence'} dict per detection above the threshold
ExtractObjects(post) ==
    LET kept == SelectSeq(post, LAMBDA d : d.score > Threshold)
    IN  [i \in 1..Len(kept) |->
            [name |-> kept[i].label, confidence |-> RoundPercent(kept[i].score),
             src |-> kept[i].src]]

\* a slip: the later detection replaces an equally confident earlier one
RECURSIVE DeduplicateLastWins(_, _)
DeduplicateLastWins(objects, unique) ==
    IF objects = <<>> THEN unique
    ELSE
        LET obj  == Head(objects)
            at   == {i \in 1..Len(unique) : unique[i].name = obj.name}
            next == IF at = {} THEN Append(unique, obj)
                    ELSE LET i == CHOOSE j \in at : TRUE IN
                         IF obj.confidence >= unique[i].confidence
                         THEN [unique EXCEPT ![i] = obj] ELSE unique
        IN  DeduplicateLastWins(Tail(objects), next)

\* lines 163-170: unique_objects keeps, per name, the first dict that no later one
\* exceeds; a dict keeps the position of its key's first insertion
RECURSIVE Deduplicate(_, _)
Deduplicate(objects, unique) ==
    IF objects = <<>> THEN unique
    ELSE
        LET obj  == Head(objects)
            at   == {i \in 1..Len(unique) : unique[i].name = obj.name}
            next == IF at = {} THEN Append(unique, obj)
                    ELSE LET i == CHOOSE j \in at : TRUE IN
                         IF obj.confidence > unique[i].confidence
                         THEN [unique EXCEPT ![i] = obj] ELSE unique
        IN  Deduplicate(Tail(objects), next)

\* how a call ended: the value returned, or the exception that left it; steps
\* lists the model-facing steps the call went through
Returned(v, steps) == [raised |-> FALSE, value |-> v, steps |-> steps]
Raised(e, steps)   == [raised |-> TRUE, value |-> e, steps |-> steps]

\* a slip: the body runs without the try/except
detect_objects_unguarded(available, img) ==
    IF ~available THEN Returned(<<>>, <<>>)
    ELSE IF img.fault \in DetectFaults THEN Raised("Exception", <<"detect">>)
    ELSE Returned(Deduplicate(ExtractObjects(PostProcess(img.detections)), <<>>),
                  <<"detect">>)

\* ImageProcessor.detect_objects(image)
detect_objects(available, img) ==
    IF ~available THEN Returned(<<>>, <<>>)
    ELSE IF img.fault \in DetectFaults THEN
        \* except Exception: return []
        Returned(<<>>, <<"detect">>)
    ELSE Returned(Deduplicate(ExtractObjects(PostProcess(img.detections)), <<>>),
                  <<"detect">>)

\* the fixed sentinel of a caption model that did not load
Sentinel == <<"I","m","a","g","e"," ","d","e","s","c","r","i","p","t","i","o","n"," ","u","n","a","v","a","i","l","a","b","l","e"," ","d","u","e"," ","t","o"," ","m","o","d","e","l"," ","l","o","a","d","i","n","g"," ","i","s","s","u","e","s",".">>

\* the text of the exception a failing step raises
FaultText(fault) ==
    CASE fault = "preprocess" -> <<"E","r","r","o","r"," ","p","r","e","p","r","o","c","e","s","s","i","n","g"," ","i","m","a","g","e",":"," ","f","a","u","l","t">>
      [] fault = "quality"    -> <<"E","r","r","o","r"," ","v","a","l","i","d","a","t","i","n","g"," ","i","m","a","g","e"," ","q","u","a","l","i","t","y",":"," ","f","a","u","l","t">>
      [] OTHER                -> <<"f","a","u","l","t">>

\* a slip: the availability flag is not consulted; the processor is None and the
\* call on it raises inside the try
generate_alt_text_unchecked(available, img) ==
    IF img.fault = "preprocess" THEN
        Returned(<<"E","r","r","o","r"," ","g","e","n","e","r","a","t","i","n","g"," ","a","l","t"," ","t","e","x","t",":"," ">> \o FaultText(img.fault),
                 <<"preprocess">>)
    ELSE IF img.fault = "quality" THEN
        Returned(<<"E","r","r","o","r"," ","g","e","n","e","r","a","t","i","n","g"," ","a","l","t"," ","t","e","x","t",":"," ">> \o FaultText(img.fault),
                 <<"preprocess", "quality">>)
    ELSE IF img.fault = "caption" \/ ~available THEN
        Returned(<<"E","r","r","o","r"," ","g","e","n","e","r","a","t","i","n","g"," ","a","l","t"," ","t","e","x","t",":"," ">> \o FaultText("caption"),
                 <<"preprocess", "quality", "caption">>)
    ELSE Returned(img.caption, <<"preprocess", "quality", "caption">>)

\* ImageProcessor.generate_alt_text(image)
generate_alt_text(available, img) ==
    IF ~available THEN Returned(Sentinel, <<>>)
    ELSE IF img.fault = "preprocess" THEN
        Returned(<<"E","r","r","o","r"," ","g","e","n","e","r","a","t","i","n","g"," ","a","l","t"," ","t","e","x","t",":"," ">> \o FaultText(img.fault),
                 <<"preprocess">>)
    ELSE IF img.fault = "quality" THEN
        Returned(<<"E","r","r","o","r"," ","g","e","n","e","r","a","t","i","n","g"," ","a","l","t"," ","t","e","x","t",":"," ">> \o FaultText(img.fault),
                 <<"preprocess", "quality">>)
    ELSE IF img.fault = "caption" THEN
        Returned(<<"E","r","r","o","r"," ","g","e","n","e","r","a","t","i","n","g"," ","a","l","t"," ","t","e","x","t",":"," ">> \o FaultText(img.fault),
                 <<"preprocess", "quality", "caption">>)
    ELSE Returned(img.caption, <<"preprocess", "quality", "caption">>)

\* validate_image_quality: the issues found, in the order they are appended
min_resolution == 200 * 200
QualityIssues(img) ==
    (IF img.brightness < 30 THEN <<"Image too dark">>
     ELSE IF img.brightness > 225 THEN <<"Image too bright">> ELSE <<>>)
    \o (IF img.contrast < 20 THEN <<"Low contrast">> ELSE <<>>)
    \o (IF img.npixels < min_resolution THEN <<"Resolution too low">> ELSE <<>>)

\* '{:02x}'.format(n)
HexDigits == <<"0","1","2","3","4","5","6","7","8","9","a","b","c","d","e","f">>
RECURSIVE ToHex(_)
ToHex(n) ==
    IF n < 16 THEN <<HexDigits[n + 1]>>
    ELSE ToHex(n \div 16) \o <<HexDigits[(n % 16) + 1]>>
Format02x(n) == IF Len(ToHex(n)) < 2 THEN <<"0">> \o ToHex(n) ELSE ToHex(n)

\* int(c) of a cluster-centre component, kept in tenths
IntOf(tenths) == tenths \div 10

\* '#{:02x}{:02x}{:02x}'.format(int(color[0]), int(color[1]), int(color[2]))
HexColor(color) ==
    <<"#">> \o Format02x(IntOf(color[1])) \o Format02x(IntOf(color[2]))
            \o Format02x(IntOf(color[3]))

\* KMeans(n_clusters=5)
n_clusters == 5

\* KMeans.fit(pixels) raises when there are fewer pixels than clusters
KMeansFails(img) == img.fault = "kmeans" \/ img.npixels < n_clusters

DefaultResult ==
    [description |-> Sentinel, objects |-> <<>>, dominant_colors |-> <<>>,
     quality_issues |-> <<>>]

\* lines 282-284: the except block logs through `logger`, which line 275 makes a
\* local name of the function; it is bound only once line 275 has run
ExceptBlock(result, loggerBound, steps) ==
    IF loggerBound THEN Returned(result, steps)
    ELSE Raised("UnboundLocalError", steps)

\* ImageProcessor.generate_alt_text_general(image)
generate_alt_text_general(blip, detr, img) ==
    IF img.fault = "preprocess" THEN
        ExceptBlock(DefaultResult, FALSE, <<"preprocess">>)
    ELSE IF img.fault = "quality" THEN
        ExceptBlock(DefaultResult, FALSE, <<"preprocess", "quality">>)
    ELSE
        LET r1 == [DefaultResult EXCEPT !.quality_issues = QualityIssues(img)]
            s1 == <<"preprocess", "quality">>
        IN
        IF blip /\ img.fault = "caption" THEN
            ExceptBlock(r1, FALSE, s1 \o <<"caption">>)
        ELSE
            LET r2 == IF blip THEN [r1 EXCEPT !.description = img.caption] ELSE r1
                s2 == IF blip THEN s1 \o <<"caption">> ELSE s1
                \* every object detect_objects returns is a dict with a 'name'
                r3 == IF detr THEN [r2 EXCEPT !.objects = detect_objects(detr, img).value]
                      ELSE r2
                s3 == IF detr THEN s2 \o <<"detect">> ELSE s2
            IN
            IF KMeansFails(img) THEN ExceptBlock(r3, FALSE, s3 \o <<"kmeans">>)
            ELSE
                LET colors == [i \in 1..n_clusters |-> HexColor(img.centres[i])]
                IN  Returned([r3 EXCEPT !.dominant_colors = colors], s3 \o <<"kmeans">>)

\* what the detector reports: a label and a score
Labels == {"cat", "dog"}
Scores == {Threshold - 1, Threshold, Threshold + 1, Threshold + 4, (95 * ScoreOne) \div 100}
Detections == [label : Labels, score : Scores]

Captions == {<<"a"," ","d","o","g">>, <<"a"," ","d","o","g"," ","s","i","t","t","i","n","g"," ","o","n"," ","a"," ","b","e","n","c","h"," ","i","n"," ","a"," ","p","a","r","k">>}

\* cluster centres, components in tenths: 5 centres of an image's pixels
Palettes ==
    {<<<<0, 0, 0>>, <<2550, 2550, 2550>>, <<159, 160, 9>>, <<1287, 640, 2549>>,
       <<100, 1000, 2000>>>>,
     <<<<2550, 0, 0>>, <<0, 2550, 0>>, <<0, 0, 2550>>, <<1275, 1275, 1275>>,
       <<5, 95, 105>>>>}

\* an image, by what the models and the clustering make of it; fault names the
\* step that raises on it, "none" when none does
PlainImage ==
    [fault |-> "none", detections |-> <<>>, caption |-> <<"a"," ","d","o","g">>,
     brightness |-> 128, contrast |-> 50, npixels |-> min_resolution,
     centres |-> CHOOSE p \in Palettes : TRUE]

ImagesFor(m) ==
    CASE m = "detect_objects" ->
             {[PlainImage EXCEPT !.fault = f, !.detections = d] :
                 f \in {"none"} \cup DetectFaults,
                 d \in SeqsUpTo(Detections, MaxDetections)}
      [] m = "generate_alt_text" ->
             {[PlainImage EXCEPT !.fault = f, !.caption = c] :
                 f \in {"none", "preprocess", "quality", "caption"}, c \in Captions}
      [] m = "generate_alt_text_general" ->
             {[fault |-> f, detections |-> d, caption |-> c, brightness |-> b,
               contrast |-> k, npixels |-> n, centres |-> p] :
                 f \in {"none", "preprocess", "quality", "caption", "kmeans"}
                       \cup DetectFaults,
                 d \in {<<>>, <<[label |-> "cat", score |-> Threshold + 1],
                                [label |-> "cat", score |-> (95 * ScoreOne) \div 100]>>},
                 c \in Captions, b \in {10, 128, 240}, k \in {10, 50},
                 n \in {n_clusters - 1, 100, min_resolution}, p \in Palettes}

Methods == {"detect_objects", "generate_alt_text", "generate_alt_text_general"}

NoOutcome == [raised |-> FALSE, value |-> "none", steps |-> <<>>]

InitImage ==
    /\ method \in Methods
    /\ blip_available \in BOOLEAN
    /\ detr_available \in BOOLEAN
    /\ image \in ImagesFor(method)
    /\ imgOut = NoOutcome
    /\ ipc = "start"

IdleImage ==
    /\ method = "none" /\ blip_available = FALSE /\ detr_available = FALSE
    /\ image = PlainImage /\ imgOut = NoOutcome /\ ipc = "idle"

DetectObjects ==
    /\ ipc = "start" /\ method = "detect_objects"
    /\ imgOut' = detect_objects(detr_available, image)
    /\ ipc' = "done"
    /\ UNCHANGED <<method, blip_available, detr_available, image>>
    /\ UNCHANGED <<parseVars, enhVars, fileVars, upVars, svcVars, procVars, ttsVars>>

GenerateAltText ==
    /\ ipc = "start" /\ method = "generate_alt_text"
    /\ imgOut' = generate_alt_text(blip_available, image)
    /\ ipc' = "done"
    /\ UNCHANGED <<method, blip_available, detr_available, image>>
    /\ UNCHANGED <<parseVars, enhVars, fileVars, upVars, svcVars, procVars, ttsVars>>

GenerateAltTextGeneral ==
    /\ ipc = "start" /\ method = "generate_alt_text_general"
    /\ imgOut' = generate_alt_text_general(blip_available, detr_available, image)
    /\ ipc' = "done"
    /\ UNCHANGED <<method, blip_available, detr_available, image>>
    /\ UNCHANGED <<parseVars, enhVars, fileVars, upVars, svcVars, procVars, ttsVars>>

NextImage == DetectObjects \/ GenerateAltText \/ GenerateAltTextGeneral
(***************************************************************************)
(* Properties of ImageProcessor                                             *)
(***************************************************************************)
\* the positions of the detections whose score is strictly above 0.7
KeptDetections(dets) == {i \in 1..Len(dets) : dets[i].score > Threshold}

\* C11: detect_objects returns at most one entry per object name; every returned
\* entry comes from a detection whose score is strictly above 0.7; for each name the
\* returned entry carries the highest confidence among that name's kept detections,
\* and when two detections of a name have exactly equal confidence the first-seen
\* one is the one returned.
C11_OnePerNameHighestFirstSeen ==
    (ipc = "done" /\ method = "detect_objects") =>
        LET out  == imgOut.value
            dets == image.detections
            same(i) == {k \in KeptDetections(dets) : dets[k].label = out[i].name}
        IN
        /\ \A i, j \in 1..Len(out) : i # j => out[i].name # out[j].name
        /\ \A i \in 1..Len(out) :
              /\ out[i].src \in same(i)
              /\ out[i].confidence = RoundPercent(dets[out[i].src].score)
              /\ \A k \in same(i) :
                    /\ RoundPercent(dets[k].score) <= out[i].confidence
                    /\ RoundPercent(dets[k].score) = out[i].confidence => out[i].src <= k

\* two kept detections of one name with equal confidence: the first was returned
C11_Witness ==
    /\ ipc = "done" /\ method = "detect_objects"
    /\ Len(imgOut.value) = 1
    /\ \E a, b \in KeptDetections(image.detections) :
          /\ a < b
          /\ image.detections[a].label = image.detections[b].label
          /\ image.detections[a].score # image.detections[b].score
          /\ RoundPercent(image.detections[a].score)
                 = RoundPercent(image.detections[b].score)
          /\ imgOut.value[1].src = a

\* C12: every detected object returned by detect_objects (and passed through
\* generate_alt_text_general) has a confidence value in the range [0, 1].
C12_ConfidenceInUnitRange ==
    (/\ ipc = "done"
     /\ method \in {"detect_objects", "generate_alt_text_general"}
     /\ ~imgOut.raised) =>
        LET objs == IF method = "detect_objects" THEN imgOut.value
                    ELSE imgOut.value.objects
        IN  \A i \in 1..Len(objs) :
                objs[i].confidence >= 0 /\ objs[i].confidence <= PercentOne

\* C13: detect_objects never raises: when the detector model is unavailable, or
\* when inference fails at any step, it returns the empty list.
C13_DetectNeverRaises ==
    (ipc = "done" /\ method = "detect_objects") =>
        /\ ~imgOut.raised
        /\ (~detr_available \/ image.fault \in DetectFaults) => imgOut.value = <<>>

\* inference failed on an image with a detection above the threshold
C13_Witness ==
    /\ ipc = "done" /\ method = "detect_objects"
    /\ detr_available
    /\ image.fault = "inference"
    /\ KeptDetections(image.detections) # {}
    /\ imgOut.value = <<>>

\* C14: generate_alt_text never raises and always returns a string: when the
\* caption model is unavailable it returns the fixed sentinel without attempting
\* preprocessing or inference.
C14_AltTextNeverRaises ==
    (ipc = "done" /\ method = "generate_alt_text") =>
        /\ ~imgOut.raised
        /\ \A i \in 1..Len(imgOut.value) : imgOut.value[i] \in STRING
        /\ ~blip_available =>
              /\ imgOut.value =
                     <<"I","m","a","g","e"," ","d","e","s","c","r","i","p","t","i","o","n"," ","u","n","a","v","a","i","l","a","b","l","e"," ","d","u","e"," ","t","o"," ","m","o","d","e","l"," ","l","o","a","d","i","n","g"," ","i","s","s","u","e","s",".">>
              /\ imgOut.steps = <<>>

\* the caption model is unavailable and the sentinel came back
C14_Witness ==
    /\ ipc = "done" /\ method = "generate_alt_text"
    /\ ~blip_available
    /\ imgOut.value = Sentinel
    /\ imgOut.steps = <<>>

\* '#' followed by six lowercase hex digits
IsHexColor(s) ==
    /\ Len(s) = 7
    /\ s[1] = "#"
    /\ \A i \in 2..7 : \E j \in 1..Len(HexDigits) : s[i] = HexDigits[j]

\* C20: generate_alt_text_general always returns a mapping with the four keys
\* description, objects, dominant_colors, quality_issues and never raises; when all
\* steps succeed dominant_colors holds exactly 5 strings of the form '#' followed by
\* six lowercase hex digits and description is non-empty, and in every imgOut
\* dominant_colors has length 0 or 5.
C20_GeneralAnalysisShape ==
    (ipc = "done" /\ method = "generate_alt_text_general") =>
        /\ ~imgOut.raised
        /\ DOMAIN imgOut.value =
               {"description", "objects", "dominant_colors", "quality_issues"}
        /\ Len(imgOut.value.dominant_colors) \in {0, 5}
        /\ (image.fault = "none" /\ image.npixels >= 5) =>
              /\ Len(imgOut.value.dominant_colors) = 5
              /\ \A i \in 1..5 : IsHexColor(imgOut.value.dominant_colors[i])
              /\ imgOut.value.description # <<>>
(***************************************************************************)
(* The service operations that call the hosted generative model             *)
(***************************************************************************)
\* itertools.groupby over the words: one word per run of equal words
RECURSIVE DropRepeats(_)
DropRepeats(ws) ==
    IF Len(ws) < 2 THEN ws
    ELSE IF ws[1] = ws[2] THEN DropRepeats(Tail(ws))
    ELSE <<ws[1]>> \o DropRepeats(Tail(ws))

\* re.sub(r'(.)\1+', r'\1', s): a run of one character, other than a newline,
\* shrinks to that character
CollapseRuns(s) ==
    SelectSeq([i \in 1..Len(s) |->
                  IF i > 1 /\ s[i] = s[i - 1] /\ s[i] # "\n" THEN "" ELSE s[i]],
              LAMBDA c : c # "")

\* text_service.clean_text(text, remove_duplicates, remove_repetitive_chars)
clean_text(t, remove_duplicates, remove_repetitive_chars) ==
    IF t = <<>> THEN t
    ELSE
        LET words   == SplitWords(t)
            deduped == IF remove_duplicates THEN DropRepeats(words) ELSE words
            joined  == Join(SP, deduped)
        IN  IF remove_repetitive_chars THEN CollapseRuns(joined) ELSE joined

\* what a call returned, with the Python type of the returned object, or the
\* exception that left it; calls counts the generate_content calls issued
ReturnedDict(d, n) == [raised |-> FALSE, type |-> "dict", value |-> d, calls |-> n]
ReturnedStr(s, n)  == [raised |-> FALSE, type |-> "str", value |-> s, calls |-> n]
RaisedError(e, n)  == [raised |-> TRUE, type |-> "exception", value |-> e, calls |-> n]

\* str(e) of the exception the backend run raises
BackendError(b) ==
    IF b.kind = "no_key" THEN "GEMINI_API_KEY environment variable is not set"
    ELSE "generate_content failed"

\* the run fails before a text comes back: no API key, or the call raises
BackendFails(b) == b.kind \in {"no_key", "call_fails"}
\* generate_content calls issued on the failing run
FailedCalls(b) == IF b.kind = "no_key" THEN 0 ELSE 1

\* text_service.generate_context(alt_text)
generate_context(a, b) ==
    LET cleaned_alt_text == clean_text(a, TRUE, TRUE) IN
    IF BackendFails(b) THEN
        ReturnedDict(format_error_response(BackendError(b), "CONTEXT_GENERATION_ERROR"),
                     FailedCalls(b))
    ELSE ReturnedDict(format_success_response([context |-> Strip(b.text)]), 1)

\* text_service.enhance_context(context)
enhance_context(c, b) ==
    IF BackendFails(b) THEN
        ReturnedDict(format_error_response(BackendError(b), "CONTEXT_ENHANCEMENT_ERROR"),
                     FailedCalls(b))
    ELSE ReturnedDict(format_success_response([enhanced_context |-> Strip(b.text)]), 1)

\* text_service.social_media_caption(context)
social_media_caption(c, b) ==
    IF BackendFails(b) THEN
        ReturnedDict(format_error_response(BackendError(b), "CAPTION_GENERATION_ERROR"),
                     FailedCalls(b))
    ELSE ReturnedDict(format_success_response(
                          [caption |-> clean_text(Strip(b.text), TRUE, TRUE)]), 1)

\* the fallback of generate_hashtags
DefaultHashtags == <<<<"#","P","h","o","t","o","g","r","a","p","h","y">>, <<"#","S","o","c","i","a","l">>, <<"#","C","o","n","t","e","n","t">>>>

\* text_service.generate_hashtags(text)
generate_hashtags(t, b) ==
    IF BackendFails(b) THEN
        ReturnedDict(format_error_response(BackendError(b), "HASHTAG_GENERATION_ERROR"),
                     FailedCalls(b))
    ELSE
        LET tags == SelectSeq(SplitWords(Strip(b.text)),
                              LAMBDA tag : StartsWith(Strip(tag), <<"#">>))
            hashtags == IF tags = <<>> THEN DefaultHashtags ELSE tags
        IN  ReturnedDict(format_success_response([hashtags |-> hashtags]), 1)

\* dict.update: the keys of both, the second's value where it has the key
Update(d, e) ==
    [k \in DOMAIN d \cup DOMAIN e |-> IF k \in DOMAIN e THEN e[k] ELSE d[k]]

\* seo_service.generate_seo_description(context, alt_text): two calls, the second
\* on the text of the first
generate_seo_description(c, b) ==
    IF BackendFails(b) THEN
        ReturnedDict(format_error_response(BackendError(b), "SEO_GENERATION_ERROR"),
                     FailedCalls(b))
    ELSE IF b.kind = "second_call_fails" THEN
        ReturnedDict(format_error_response(BackendError(b), "SEO_GENERATION_ERROR"), 2)
    ELSE
        LET content  == Strip(b.text)
            social   == Strip(b.text2)
            parsed == Update(parse_seo_content(content), parse_social_content(social))
        IN  ReturnedDict(format_success_response(parsed), 2)

\* text_service.enhance_alt_text(alt_text) with the default min_words, as a call
\* result
enhance_alt_text_call(a, b) ==
    LET r == enhance_alt_text(a, DefaultMinWords, b)
    IN  ReturnedDict(r.result, r.calls)

\* a slip: the model text is stored as it came, not stripped
med_analyze_medical_image_raw(readable, b) ==
    IF ~readable THEN
        ReturnedDict(format_error_response("Invalid image file", "INVALID_IMAGE"), 0)
    ELSE IF BackendFails(b) THEN
        ReturnedDict(format_error_response(BackendError(b), "ANALYSIS_ERROR"),
                     FailedCalls(b))
    ELSE
        ReturnedDict(format_success_response(
                         [analysis |-> parse_medical_report(Strip(b.text)),
                          raw_response |-> b.text]), 1)

\* med_service.analyze_medical_image(image_path): readable tells whether
\* Image.open(image_path) succeeds
med_analyze_medical_image(readable, b) ==
    IF ~readable THEN
        ReturnedDict(format_error_response("Invalid image file", "INVALID_IMAGE"), 0)
    ELSE IF BackendFails(b) THEN
        ReturnedDict(format_error_response(BackendError(b), "ANALYSIS_ERROR"),
                     FailedCalls(b))
    ELSE
        LET analysis == Strip(b.text)
            parsed == parse_medical_report(analysis)
        IN  ReturnedDict(format_success_response(
                             [analysis |-> parsed, raw_response |-> analysis]), 1)

\* text_service.analyze_medical_image(image_path, alt_text): present tells whether
\* image_path is non-empty, readable whether PIL.Image.open(image_path) succeeds
text_analyze_medical_image(present, readable, a, b) ==
    IF ~present \/ a = <<>> THEN
        ReturnedDict(format_error_response("Image and alt text are required for analysis",
                                           "MISSING_INPUT"), 0)
    ELSE IF b.kind = "no_key" THEN
        ReturnedDict(format_error_response(BackendError(b), "MEDICAL_ANALYSIS_ERROR"), 0)
    ELSE IF ~readable THEN
        ReturnedDict(format_error_response("cannot identify image file",
                                           "MEDICAL_ANALYSIS_ERROR"), 0)
    ELSE IF b.kind = "call_fails" THEN
        ReturnedDict(format_error_response(BackendError(b), "MEDICAL_ANALYSIS_ERROR"), 1)
    ELSE
        LET analysis == Strip(b.text)
            parsed == parse_inline_sections(analysis)
        IN  ReturnedDict(format_success_response(
                             [analysis |-> parsed, raw_response |-> analysis]), 1)

\* AdvancedImageProcessor.generate_image_context(): loaded tells whether
\* load_image has set self.image
generate_image_context(loaded, b) ==
    IF ~loaded THEN RaisedError("ValueError", 0)
    ELSE IF b.kind = "call_fails" THEN RaisedError("ValueError", 1)
    ELSE ReturnedStr(Strip(b.text), 1)

\* AdvancedImageProcessor.generate_enhanced_text(base_description)
generate_enhanced_text(base_description, b) ==
    IF b.kind = "call_fails" THEN RaisedError("ValueError", 1)
    ELSE ReturnedStr(Strip(b.text), 1)

\* the operations, and the texts the backend answers them with
Operations ==
    {"generate_context", "enhance_context", "social_media_caption",
     "generate_hashtags", "enhance_alt_text", "generate_seo_description",
     "med_service.analyze_medical_image", "text_service.analyze_medical_image",
     "generate_image_context", "generate_enhanced_text"}

\* AdvancedImageProcessor obtains the client in __init__, so its methods never run
\* without an API key
AdvancedOperations == {"generate_image_context", "generate_enhanced_text"}

RemoteTexts(op) ==
    CASE op = "generate_hashtags" -> {<<"#","a"," ","#","b">>, <<" ","t","a","g","s",":"," ","#","a"," ","b","\n">>, <<"n","o","n","e">>}
      [] op = "generate_seo_description" -> {<<"M","e","t","a"," ","T","i","t","l","e",":","\n","o","k">>, <<>>}
      [] op = "med_service.analyze_medical_image" ->
             {<<" ","1","."," ","T","e","c","h","n","i","c","a","l"," ","A","s","s","e","s","s","m","e","n","t","\n","o","k","\n","R","e","c","o","m","m","e","n","d","a","t","i","o","n","s","\n","o","k","\n">>, <<"o","k">>, <<>>}
      [] op = "text_service.analyze_medical_image" ->
             {<<"1","."," ","K","e","y"," ","F","i","n","d","i","n","g","s",":","\n","o","k","\n">>, <<>>}
      [] op = "social_media_caption" ->
             {<<" ","a"," ","d","o","g"," ">>, <<"a"," ","a"," ","d","o","g"," ","o","n"," ","t","h","e"," ","t","h","e"," ","b","e","n","c","h">>, <<"s","o"," ","g","o","o","d"," ","g","o","o","o","d">>,
              <<"w","o","w"," "," ","w","o","w","!","!"," ","w","h","a","t"," ","a"," ","d","a","y">>, <<>>}
      [] OTHER -> {<<" ","a"," ","d","o","g"," ">>, <<"a"," ","a"," ","d","o","g"," ","o","n"," ","t","h","e"," ","t","h","e"," ","b","e","n","c","h">>, <<>>}

SecondTexts(op) ==
    IF op = "generate_seo_description" THEN {<<"I","n","s","t","a","g","r","a","m","\n","o","k">>, <<>>} ELSE {<<>>}

Remotes(op) ==
    {[kind |-> k, text |-> <<>>, text2 |-> <<>>] :
        k \in (IF op \in AdvancedOperations THEN {"call_fails"}
               ELSE IF op = "generate_seo_description"
                    THEN {"no_key", "call_fails", "second_call_fails"}
                    ELSE {"no_key", "call_fails"})}
    \cup {[kind |-> "returns", text |-> t, text2 |-> u] :
             t \in RemoteTexts(op), u \in SecondTexts(op)}

\* the arguments: a text, and for the operations on an image whether the image is
\* there and opens
Arguments(op) ==
    {[text |-> t, present |-> p, readable |-> r] :
        t \in {<<>>, <<"a"," ","d","o","g">>, <<"a"," ","b","i","g"," ","d","o","g"," ","s","i","t","t","i","n","g"," ","o","n"," ","a"," ","p","a","r","k"," ","b","e","n","c","h">>},
        p \in (IF op \in {"text_service.analyze_medical_image", "generate_image_context"}
               THEN BOOLEAN ELSE {TRUE}),
        r \in (IF op \in {"text_service.analyze_medical_image",
                          "med_service.analyze_medical_image"}
               THEN BOOLEAN ELSE {TRUE})}

NoArgument == [text |-> <<>>, present |-> FALSE, readable |-> FALSE]
NoRemote == [kind |-> "none", text |-> <<>>, text2 |-> <<>>]
NoResult == [raised |-> FALSE, type |-> "none", value |-> <<>>, calls |-> 0]

InitService ==
    /\ operation \in Operations
    /\ argument \in Arguments(operation)
    /\ remote \in Remotes(operation)
    /\ svcOut = NoResult
    /\ spc = "start"

IdleService ==
    /\ operation = "none" /\ argument = NoArgument /\ remote = NoRemote
    /\ svcOut = NoResult /\ spc = "idle"

\* the call ends with this value
Finish(value) ==
    /\ svcOut' = value
    /\ spc' = "done"
    /\ UNCHANGED <<operation, argument, remote>>
    /\ UNCHANGED <<parseVars, enhVars, fileVars, upVars, imgVars, procVars, ttsVars>>

GenerateContext ==
    /\ spc = "start" /\ operation = "generate_context"
    /\ Finish(generate_context(argument.text, remote))

EnhanceContext ==
    /\ spc = "start" /\ operation = "enhance_context"
    /\ Finish(enhance_context(argument.text, remote))

SocialMediaCaption ==
    /\ spc = "start" /\ operation = "social_media_caption"
    /\ Finish(social_media_caption(argument.text, remote))

GenerateHashtags ==
    /\ spc = "start" /\ operation = "generate_hashtags"
    /\ Finish(generate_hashtags(argument.text, remote))

EnhanceAltTextCall ==
    /\ spc = "start" /\ operation = "enhance_alt_text"
    /\ Finish(enhance_alt_text_call(argument.text, remote))

GenerateSeoDescription ==
    /\ spc = "start" /\ operation = "generate_seo_description"
    /\ Finish(generate_seo_description(argument.text, remote))

MedAnalyzeMedicalImage ==
    /\ spc = "start" /\ operation = "med_service.analyze_medical_image"
    /\ Finish(med_analyze_medical_image(argument.readable, remote))

TextAnalyzeMedicalImage ==
    /\ spc = "start" /\ operation = "text_service.analyze_medical_image"
    /\ Finish(text_analyze_medical_image(argument.present, argument.readable,
                                         argument.text, remote))

GenerateImageContext ==
    /\ spc = "start" /\ operation = "generate_image_context"
    /\ Finish(generate_image_context(argument.present, remote))

GenerateEnhancedText ==
    /\ spc = "start" /\ operation = "generate_enhanced_text"
    /\ Finish(generate_enhanced_text(argument.text, remote))

NextService ==
    \/ GenerateContext \/ EnhanceContext \/ SocialMediaCaption \/ GenerateHashtags
    \/ EnhanceAltTextCall \/ GenerateSeoDescription \/ MedAnalyzeMedicalImage
    \/ TextAnalyzeMedicalImage \/ GenerateImageContext \/ GenerateEnhancedText
(***************************************************************************)
(* Properties of the service operations                                     *)
(***************************************************************************)
\* Success{data} or Failure{message, code}
IsServiceResult(v) ==
    \/ DOMAIN v = {"success", "data"} /\ v.success = TRUE
    \/ /\ DOMAIN v = {"success", "error"}
       /\ v.success = FALSE
       /\ DOMAIN v.error = {"message", "code"}
       /\ v.error.code # ""

\* the operation gets as far as the generative backend with this argument
ReachesBackend(op, arg) ==
    CASE op = "enhance_alt_text" -> WordCount(arg.text) < 6
      [] op = "text_service.analyze_medical_image" -> arg.present /\ arg.text # <<>>
      [] op = "med_service.analyze_medical_image" -> arg.readable
      [] op = "generate_image_context" -> arg.present
      [] OTHER -> TRUE

\* C15: every service-level operation that calls the hosted generative model
\* returns either Success{data} or Failure{message, code}; a transport or auth
\* failure of the generative call yields a Failure result with a code and never an
\* exception propagating out of the operation.
C15_ServiceResultAlways ==
    spc = "done" =>
        /\ ~svcOut.raised
        /\ svcOut.type = "dict"
        /\ IsServiceResult(svcOut.value)
        /\ (remote.kind # "returns" /\ ReachesBackend(operation, argument)) =>
               svcOut.value.success = FALSE

\* t without its leading and trailing whitespace: t is blanks, s, blanks and s
\* neither starts nor ends with a blank
IsStripped(s, t) ==
    /\ (s # <<>> => s[1] \notin WS /\ s[Len(s)] \notin WS)
    /\ \E i \in 0..Len(t) :
          /\ i + Len(s) <= Len(t)
          /\ SubSeq(t, i + 1, i + Len(s)) = s
          /\ \A j \in 1..i : t[j] \in WS
          /\ \A j \in (i + Len(s) + 1)..Len(t) : t[j] \in WS

\* C18: med_service.analyze_medical_image always returns one of two shapes and
\* never raises: on success, success=true with data.analysis containing exactly the
\* four keys technical_assessment, anatomical_observations, notable_findings,
\* recommendations plus data.raw_response equal to the stripped model text; on any
\* failure (unreadable image, missing API key, generation error), success=false
\* with an error.
C18_MedicalAnalysisShapes ==
    (spc = "done" /\ operation = "med_service.analyze_medical_image") =>
        /\ ~svcOut.raised
        /\ svcOut.type = "dict"
        /\ IF argument.readable /\ remote.kind = "returns"
           THEN /\ DOMAIN svcOut.value = {"success", "data"}
                /\ svcOut.value.success = TRUE
                /\ DOMAIN svcOut.value.data = {"analysis", "raw_response"}
                /\ DOMAIN svcOut.value.data.analysis =
                       {"technical_assessment", "anatomical_observations",
                        "notable_findings", "recommendations"}
                /\ IsStripped(svcOut.value.data.raw_response, remote.text)
           ELSE /\ DOMAIN svcOut.value = {"success", "error"}
                /\ svcOut.value.success = FALSE

\* a report came back with blanks around it and was parsed into its sections
C18_Witness ==
    /\ spc = "done" /\ operation = "med_service.analyze_medical_image"
    /\ svcOut.value.success = TRUE
    /\ svcOut.value.data.raw_response # remote.text
    /\ svcOut.value.data.analysis.recommendations # <<>>

\* two neighbouring words of the text are the same word
HasAdjacentDuplicate(t) ==
    \E i \in 1..(Len(SplitWords(t)) - 1) : SplitWords(t)[i] = SplitWords(t)[i + 1]

\* C29: for every input text, the output of clean_text with default flags contains
\* no two adjacent identical whitespace-delimited words (consecutive duplicate
\* words are fully removed, also after repeated characters have been collapsed).
\* Observed on the caption, which social_media_caption passes through clean_text.
C29_NoAdjacentDuplicateWords ==
    (/\ spc = "done"
     /\ operation = "social_media_caption"
     /\ svcOut.value.success) =>
        ~HasAdjacentDuplicate(svcOut.value.data.caption)
(***************************************************************************)
(* The processing part of the handlers: from the stored upload to the       *)
(* response.  The checks and the storing before it, and the removal of the  *)
(* file after it, are the upload handlers above.                            *)
(***************************************************************************)
\* a Python value placed in a JSON body, with its type
PyList(v) == [type |-> "list", value |-> v]
PyDict(v) == [type |-> "dict", value |-> v]

\* jsonify(...) and its status
Answer(status, success, data) == [status |-> status, success |-> success, data |-> data]
NoAnswer == Answer(0, "absent", <<>>)

\* the except blocks of the handlers: status 500; analyze_general's body has no
\* 'success' key
Answer500(h) ==
    Answer(500, IF h = "analyze_general" THEN "absent" ELSE "false", <<>>)

\* the generative calls a handler issues
CallsOf(h) ==
    CASE h = "social_media" ->
             {"enhance_alt_text", "generate_context", "social_media_caption",
              "generate_hashtags"}
      [] h = "analyze_social_media" ->
             {"generate_image_context", "enhance_alt_text", "generate_enhanced_text",
              "generate_hashtags"}
      [] h = "advanced_analysis" ->
             {"generate_context", "generate_enhanced_text", "sentiment_analysis"}
      [] OTHER -> {}

\* what the generative model answers to each call when it answers
ReplyTo(w, call) ==
    CASE call = "generate_hashtags" -> w.tags
      [] call = "generate_image_context" -> w.img.caption
      [] call = "enhance_alt_text" -> <<"a"," ","b","r","o","w","n"," ","d","o","g"," ","s","i","t","t","i","n","g"," ","o","n"," ","a"," ","w","o","o","d","e","n"," ","b","e","n","c","h">>
      [] call = "generate_context" -> <<" ","A"," ","d","o","g"," ","s","i","t","s"," ","o","n"," ","a"," ","b","e","n","c","h","."," ">>
      [] call = "social_media_caption" -> <<"B","e","s","t"," ","d","a","y"," ","e","v","e","r">>
      [] OTHER -> <<"T","h","e"," ","d","o","g"," ","l","o","o","k","s"," ","c","a","l","m",".">>

\* the run of one generative call in the world w
BackendOf(w, call) ==
    [kind  |-> IF ~w.key THEN "no_key"
               ELSE IF w.failing = call THEN "call_fails" ELSE "returns",
     text  |-> ReplyTo(w, call),
     text2 |-> <<>>]

\* AdvancedImageProcessor(): __init__ calls get_gemini_client(), which raises
\* without a key
ProcessorRaises(w) == ~w.key

\* AdvancedImageProcessor.color_clusters
color_clusters == 5

\* np.unique(labels, return_counts=True)[0]: the labels that occur, ascending;
\* counts[c] is the number of pixels labelled c
RECURSIVE UniqueLabelsFrom(_, _)
UniqueLabelsFrom(counts, c) ==
    IF c > Len(counts) THEN <<>>
    ELSE (IF counts[c] > 0 THEN <<c>> ELSE <<>>) \o UniqueLabelsFrom(counts, c + 1)

unique_labels(counts) == UniqueLabelsFrom(counts, 1)

\* np.unique(labels, return_counts=True)[1]: one count per label that occurs
label_counts(counts) ==
    [k \in 1..Len(unique_labels(counts)) |-> counts[unique_labels(counts)[k]]]

\* np.argsort(percentages)[::-1]: the positions in percentages from the largest
\* share to the smallest (shares differ)
SortedIndices(percentages) ==
    [k \in 1..Len(percentages) |->
        CHOOSE i \in 1..Len(percentages) :
            Cardinality({j \in 1..Len(percentages) :
                            percentages[j] > percentages[i]}) = k - 1]

\* len(labels): the number of pixels
Total(counts) == counts[1] + counts[2] + counts[3] + counts[4] + counts[5]

\* AdvancedImageProcessor.analyze_colors(): img.centres are kmeans.cluster_centers_,
\* counts the pixels of each label in kmeans.labels_; percentages in whole percents
analyze_colors(img, counts) ==
    IF img.fault = "kmeans" \/ img.npixels < color_clusters THEN
        RaisedError("ValueError", 0)
    ELSE
        LET percentages == [k \in 1..Len(label_counts(counts)) |->
                               (label_counts(counts)[k] * 100) \div Total(counts)]
            sorted_indices == SortedIndices(percentages)
            \* colors[sorted_indices]: the centres at the positions of the sort
            colors == [k \in 1..Len(sorted_indices) |-> img.centres[sorted_indices[k]]]
        IN  ReturnedDict(
                [dominant_colors |-> [k \in 1..Len(colors) |->
                                         <<IntOf(colors[k][1]), IntOf(colors[k][2]),
                                           IntOf(colors[k][3])>>],
                 percentages |-> [k \in 1..Len(sorted_indices) |->
                                     percentages[sorted_indices[k]]]], 0)

\* the default row of sentiment_analysis; Confidence in hundredths
DefaultSentiment == [Sentiment |-> "Neutral", Confidence |-> 50, numeric |-> TRUE]

\* AdvancedImageProcessor.sentiment_analysis(text): reply is what the model
\* answered, by what json.loads makes of the text between the first '{' and the
\* last '}'
sentiment_analysis(b, reply) ==
    IF BackendFails(b) THEN DefaultSentiment
    ELSE CASE reply = "json" ->
                  [Sentiment |-> "Positive", Confidence |-> 90, numeric |-> TRUE]
           [] reply = "json_in_prose" ->
                  [Sentiment |-> "Negative", Confidence |-> 80, numeric |-> TRUE]
           [] reply = "score_as_word" ->
                  [Sentiment |-> "Positive", Confidence |-> 0, numeric |-> FALSE]
           \* not JSON (JSONDecodeError) or a key is missing (ValueError)
           [] OTHER -> DefaultSentiment

\* lines 577-588 of advanced_analysis: float(...) of the confidence raises on a
\* value that is not a number, and the except gives the default
SentimentData(row) ==
    IF row.numeric THEN [score |-> row.Confidence, label |-> row.Sentiment]
    ELSE [score |-> 50, label |-> "Neutral"]

\* social_media, lines 66-99
social_media(w) ==
    IF ~w.readable THEN Answer500("social_media")
    ELSE
        LET generated == generate_alt_text(w.blip, w.img).value
            alt_text_result ==
                enhance_alt_text_call(generated, BackendOf(w, "enhance_alt_text")).value
            alt == IF alt_text_result.success
                        THEN alt_text_result.data.enhanced_alt_text ELSE generated
            context_result ==
                generate_context(alt, BackendOf(w, "generate_context")).value
        IN
        IF ~context_result.success THEN Answer500("social_media")
        ELSE
            LET caption_result ==
                    social_media_caption(context_result.data.context,
                                         BackendOf(w, "social_media_caption")).value
                hashtags_result ==
                    generate_hashtags(context_result.data.context,
                                      BackendOf(w, "generate_hashtags")).value
                hashtags == IF ~hashtags_result.success THEN PyList(<<>>)
                            ELSE PyList(hashtags_result.data.hashtags)
            IN
            IF ~caption_result.success THEN Answer500("social_media")
            ELSE Answer(200, "true",
                        [alt_text |-> alt,
                         caption  |-> caption_result.data.caption,
                         hashtags |-> hashtags])

\* analyze_social_media, lines 473-500
analyze_social_media(w) ==
    IF ProcessorRaises(w) \/ ~w.readable THEN Answer500("analyze_social_media")
    ELSE
        LET described ==
                generate_image_context(TRUE, BackendOf(w, "generate_image_context"))
        IN
        IF described.raised THEN Answer500("analyze_social_media")
        ELSE
            LET alt_text_result ==
                    enhance_alt_text_call(described.value,
                                          BackendOf(w, "enhance_alt_text")).value
                alt == IF alt_text_result.success
                            THEN alt_text_result.data.enhanced_alt_text
                            ELSE described.value
                enhanced_text ==
                    generate_enhanced_text(alt,
                                           BackendOf(w, "generate_enhanced_text"))
            IN
            IF enhanced_text.raised THEN Answer500("analyze_social_media")
            ELSE
                \* line 491: the result of generate_hashtags, as it is
                LET hashtags == generate_hashtags(enhanced_text.value,
                                                  BackendOf(w, "generate_hashtags")).value
                IN  Answer(200, "true",
                           [alt_text |-> alt,
                            caption  |-> enhanced_text.value,
                            hashtags |-> PyDict(hashtags)])

\* analyze_general, lines 243-262
analyze_general(w) ==
    IF ~w.readable THEN Answer500("analyze_general")
    ELSE
        LET result == generate_alt_text_general(w.blip, w.detr, w.img) IN
        IF result.raised THEN Answer500("analyze_general")
        ELSE Answer(200, "absent",
                    [description |-> result.value.description,
                     objects |-> [i \in 1..Len(result.value.objects) |->
                                     result.value.objects[i].name],
                     colors |-> result.value.dominant_colors])

\* advanced_analysis, lines 544-606
advanced_analysis(w) ==
    IF ~w.readable \/ ProcessorRaises(w) THEN Answer500("advanced_analysis")
    ELSE
        LET alt == generate_alt_text(w.blip, w.img).value
            context_result ==
                generate_context(alt, BackendOf(w, "generate_context")).value
        IN
        IF ~context_result.success THEN Answer500("advanced_analysis")
        ELSE
            LET enhanced_result ==
                    generate_enhanced_text(context_result.data.context,
                                           BackendOf(w, "generate_enhanced_text"))
                colours == analyze_colors(w.img, w.counts)
                sentiment_result ==
                    sentiment_analysis(BackendOf(w, "sentiment_analysis"), w.reply)
            IN
            IF enhanced_result.raised \/ colours.raised THEN
                Answer500("advanced_analysis")
            ELSE Answer(200, "true",
                        [description |-> enhanced_result.value,
                         color_analysis |->
                             [histogram |-> "png", pie_chart |-> "png",
                              dominant_colors |-> colours.value.dominant_colors,
                              color_percentages |-> colours.value.percentages],
                         sentiment |-> SentimentData(sentiment_result)])

ProcessHandlers ==
    {"social_media", "analyze_social_media", "analyze_general", "advanced_analysis"}

\* the images the handlers are given
ProcessImages ==
    {[PlainImage EXCEPT !.fault = f, !.caption = c, !.npixels = n, !.detections = d] :
        f \in {"none", "caption", "kmeans"}, c \in Captions,
        n \in {color_clusters - 1, min_resolution},
        d \in {<<>>, <<[label |-> "cat", score |-> Threshold + 1]>>}}

HashtagReplies == {<<"#","d","o","g"," ","#","p","a","r","k">>, <<"n","o"," ","t","a","g","s">>}
SentimentReplies == {"json", "json_in_prose", "score_as_word", "not_json", "key_missing"}
\* the pixels of each of the 5 clusters: every cluster non-empty, the last cluster
\* empty, an inner cluster empty, the first two clusters empty
ClusterCounts ==
    {<<40, 10, 25, 20, 5>>, <<40, 10, 30, 20, 0>>, <<40, 0, 25, 20, 15>>,
     <<0, 0, 15, 60, 25>>}

\* the surroundings of one request: whether the stored upload opens as an image,
\* which models loaded, whether the API key is set, which generative call fails
WorldsOf(h) ==
    {[readable |-> r, blip |-> bl, detr |-> de, img |-> i, key |-> k, failing |-> f,
      tags |-> t, reply |-> s, counts |-> c] :
        r \in BOOLEAN, bl \in BOOLEAN,
        de \in (IF h = "analyze_general" THEN BOOLEAN ELSE {TRUE}),
        i \in ProcessImages,
        k \in (IF h = "analyze_general" THEN {TRUE} ELSE BOOLEAN),
        f \in {"none"} \cup CallsOf(h),
        t \in (IF "generate_hashtags" \in CallsOf(h) THEN HashtagReplies
               ELSE {<<>>}),
        s \in (IF h = "advanced_analysis" THEN SentimentReplies ELSE {"json"}),
        c \in (IF h = "advanced_analysis" THEN ClusterCounts
               ELSE {<<40, 10, 25, 20, 5>>})}

InitProcess ==
    /\ handler \in ProcessHandlers
    /\ world \in WorldsOf(handler)
    /\ response = NoAnswer
    /\ hpc = "start"

IdleProcess ==
    /\ handler = "none" /\ world = <<>> /\ response = NoAnswer /\ hpc = "idle"

\* the handler returns this answer
Respond(answer) ==
    /\ response' = answer
    /\ hpc' = "done"
    /\ UNCHANGED <<handler, world>>
    /\ UNCHANGED <<parseVars, enhVars, fileVars, upVars, imgVars, svcVars, ttsVars>>

SocialMedia ==
    /\ hpc = "start" /\ handler = "social_media"
    /\ Respond(social_media(world))

AnalyzeSocialMedia ==
    /\ hpc = "start" /\ handler = "analyze_social_media"
    /\ Respond(analyze_social_media(world))

AnalyzeGeneral ==
    /\ hpc = "start" /\ handler = "analyze_general"
    /\ Respond(analyze_general(world))

AdvancedAnalysis ==
    /\ hpc = "start" /\ handler = "advanced_analysis"
    /\ Respond(advanced_analysis(world))

NextProcess == SocialMedia \/ AnalyzeSocialMedia \/ AnalyzeGeneral \/ AdvancedAnalysis

(***************************************************************************)
(* Properties of the processing part of the handlers                        *)
(***************************************************************************)
\* nothing but local degradations can be wrong with the request: the upload opens,
\* the API key is set, the generative calls for the description answer and no
\* step other than the clustering faults
OnlyLocalDegradations ==
    /\ world.readable
    /\ world.key
    /\ world.failing \in {"none", "sentiment_analysis"}
    /\ world.img.fault \in {"none", "kmeans"}

\* C16: a local degradation (caption or detector model unavailable,
\* colour-clustering failure, or sentiment-response parse failure) never makes a
\* request fail: in every handler that uses these steps (analyze_general,
\* advanced_analysis) the response is still a success response carrying a default
\* or fallback value for the degraded part.
C16_DegradationStillSucceeds ==
    (/\ hpc = "done"
     /\ handler \in {"analyze_general", "advanced_analysis"}
     /\ OnlyLocalDegradations) =>
        /\ response.status = 200
        /\ response.success # "false"
        /\ (handler = "analyze_general" /\ ~world.blip) =>
               response.data.description = Sentinel
        /\ (handler = "analyze_general" /\ ~world.detr) =>
               response.data.objects = <<>>
        /\ (handler = "advanced_analysis"
            /\ world.reply \in {"not_json", "key_missing", "score_as_word"}) =>
               response.data.sentiment = [score |-> 50, label |-> "Neutral"]

\* a hashtag string
IsHashtag(s) == s # <<>> /\ s[1] = "#"

\* C19: on both social-media endpoints (POST /social-media and POST
\* /api/social-media/analyze), every success response has data.hashtags equal to a
\* list of hashtag strings (possibly empty), never a nested result object.
C19_HashtagsIsAList ==
    (/\ hpc = "done"
     /\ handler \in {"social_media", "analyze_social_media"}
     /\ response.status = 200) =>
        /\ response.data.hashtags.type = "list"
        /\ \A i \in 1..Len(response.data.hashtags.value) :
               IsHashtag(response.data.hashtags.value[i])


\* the share of the pixels in cluster c, as analyze_colors reports shares
ShareOf(c) == (world.counts[c] * 100) \div Total(world.counts)

\* the centre of cluster c, as analyze_colors reports colours
CentreOf(c) ==
    <<IntOf(world.img.centres[c][1]), IntOf(world.img.centres[c][2]),
      IntOf(world.img.centres[c][3])>>

\* C28: in analyze_colors, for every clustering outcome (k centres and one cluster
\* label per pixel, including outcomes where some cluster receives no pixel), the
\* returned dominant_colors and percentages have the same length, percentages are
\* in non-increasing order, and dominant_colors[i] is the centre of exactly the
\* cluster whose pixel share is percentages[i].  Observed on color_analysis of
\* advanced_analysis, which carries both lists unchanged.
C28_DominantColorsMatchShares ==
    (/\ hpc = "done" /\ handler = "advanced_analysis" /\ response.status = 200) =>
        LET dominant_colors == response.data.color_analysis.dominant_colors
            percentages == response.data.color_analysis.color_percentages
        IN  /\ Len(dominant_colors) = Len(percentages)
            /\ \A i \in 1..(Len(percentages) - 1) : percentages[i] >= percentages[i + 1]
            /\ \A i \in 1..Len(percentages) :
                   \E c \in 1..color_clusters :
                       /\ world.counts[c] > 0
                       /\ ShareOf(c) = percentages[i]
                       /\ dominant_colors[i] = CentreOf(c)
(***************************************************************************)
(* main_routes.text_to_speech: POST /text-to-speech                         *)
(***************************************************************************)
\* text-to-speech requests handled at the same time
NumTts == 2
TtsRequests == 1..NumTts

\* request bodies: not JSON, JSON without 'text', JSON with an empty or a
\* non-empty 'text'
TtsBodies ==
    {[json |-> FALSE, has_text |-> FALSE, text |-> <<>>],
     [json |-> TRUE, has_text |-> FALSE, text |-> <<>>],
     [json |-> TRUE, has_text |-> TRUE, text |-> <<>>],
     [json |-> TRUE, has_text |-> TRUE, text |-> <<"h","i">>],
     [json |-> TRUE, has_text |-> TRUE, text |-> <<"a"," ","d","o","g"," ","i","n"," ","a"," ","p","a","r","k">>]}

\* request.json.get('text', '')
TextOf(body) == IF body.has_text THEN body.text ELSE <<>>

NoSpeech == [status |-> 0, error |-> <<>>, download_name |-> <<>>]

\* jsonify({'error': message}), status
SpeechError(status, message) ==
    [status |-> status, error |-> message, download_name |-> <<>>]

\* send_file(temp_file.name, mimetype='audio/mp3', as_attachment=True,
\*           download_name='speech.mp3')
SpeechFile == [status |-> 200, error |-> <<>>, download_name |-> <<"s","p","e","e","c","h",".","m","p","3">>]

InitTts ==
    /\ speech \in [TtsRequests -> {[pc |-> "start", body |-> b, resp |-> NoSpeech] :
                                      b \in TtsBodies}]
    /\ tempdir = {}

IdleTts == speech = <<>> /\ tempdir = {}

\* request.json raises on a body that is not JSON; except Exception answers 500
TextToSpeechBadBody(r) ==
    /\ speech[r].pc = "start"
    /\ ~speech[r].body.json
    /\ speech' = [speech EXCEPT
                     ![r].pc = "returned",
                     ![r].resp = SpeechError(500,
                         <<"E","r","r","o","r"," ","g","e","n","e","r","a","t","i","n","g"," ","s","p","e","e","c","h","."," ","P","l","e","a","s","e"," ","t","r","y"," ","a","g","a","i","n",".">>)]
    /\ UNCHANGED <<tempdir, parseVars, enhVars, fileVars, upVars, imgVars, svcVars,
                   procVars>>

\* if not text: 400
TextToSpeechNoText(r) ==
    /\ speech[r].pc = "start"
    /\ speech[r].body.json
    /\ TextOf(speech[r].body) = <<>>
    /\ speech' = [speech EXCEPT
                     ![r].pc = "returned",
                     ![r].resp = SpeechError(400, <<"N","o"," ","t","e","x","t"," ","p","r","o","v","i","d","e","d">>)]
    /\ UNCHANGED <<tempdir, parseVars, enhVars, fileVars, upVars, imgVars, svcVars,
                   procVars>>

\* tempfile.NamedTemporaryFile(delete=False, suffix='.mp3'): a new file of a
\* name not in use
TextToSpeechTempFile(r) ==
    /\ speech[r].pc = "start"
    /\ speech[r].body.json
    /\ TextOf(speech[r].body) # <<>>
    /\ speech' = [speech EXCEPT ![r].pc = "temp_file"]
    /\ tempdir' = tempdir \cup {r}
    /\ UNCHANGED <<parseVars, enhVars, fileVars, upVars, imgVars, svcVars, procVars>>

\* gTTS(text=text, lang='en') or tts.save(temp_file.name) raises (the speech
\* service does not answer); except Exception answers 500
TextToSpeechSaveRaises(r) ==
    /\ speech[r].pc = "temp_file"
    /\ speech' = [speech EXCEPT
                     ![r].pc = "returned",
                     ![r].resp = SpeechError(500,
                         <<"E","r","r","o","r"," ","g","e","n","e","r","a","t","i","n","g"," ","s","p","e","e","c","h","."," ","P","l","e","a","s","e"," ","t","r","y"," ","a","g","a","i","n",".">>)]
    /\ UNCHANGED <<tempdir, parseVars, enhVars, fileVars, upVars, imgVars, svcVars,
                   procVars>>

\* tts.save(temp_file.name) wrote the audio; return send_file(...)
TextToSpeechSendFile(r) ==
    /\ speech[r].pc = "temp_file"
    /\ speech' = [speech EXCEPT ![r].pc = "returned", ![r].resp = SpeechFile]
    /\ UNCHANGED <<tempdir, parseVars, enhVars, fileVars, upVars, imgVars, svcVars,
                   procVars>>

NextTts ==
    \E r \in TtsRequests :
        \/ TextToSpeechBadBody(r)
        \/ TextToSpeechNoText(r)
        \/ TextToSpeechTempFile(r)
        \/ TextToSpeechSaveRaises(r)
        \/ TextToSpeechSendFile(r)

\* C23: after any POST /text-to-speech request completes (success or failure),
\* the temporary audio file the handler created no longer exists; repeated
\* requests do not accumulate temporary files.
C23_TempFileGoneAfterRequest ==
    /\ \A r \in TtsRequests : speech[r].pc = "returned" => r \notin tempdir
    /\ (\A r \in TtsRequests : speech[r].pc = "returned") => tempdir = {}

\* requests arrive; no other call is under way
Init ==
    /\ IdleParse /\ IdleEnhance /\ IdleFile /\ InitUpload
    /\ IdleImage /\ IdleService /\ IdleProcess /\ IdleTts
Spec == Init /\ [][NextUpload]_vars

\* one call of a report parser
InitParseOnly ==
    /\ InitParse /\ IdleEnhance /\ IdleFile /\ IdleUpload
    /\ IdleImage /\ IdleService /\ IdleProcess /\ IdleTts
SpecParse == InitParseOnly /\ [][NextParse]_vars

\* one call of enhance_alt_text
InitEnhanceOnly ==
    /\ IdleParse /\ InitEnhance /\ IdleFile /\ IdleUpload
    /\ IdleImage /\ IdleService /\ IdleProcess /\ IdleTts
SpecEnhance == InitEnhanceOnly /\ [][NextEnhance]_vars

\* one call of allowed_file or validate_image
InitFileOnly ==
    /\ IdleParse /\ IdleEnhance /\ InitFile /\ IdleUpload
    /\ IdleImage /\ IdleService /\ IdleProcess /\ IdleTts
SpecFile == InitFileOnly /\ [][NextFile]_vars

\* one call of a method of ImageProcessor
InitImageOnly ==
    /\ IdleParse /\ IdleEnhance /\ IdleFile /\ IdleUpload
    /\ InitImage /\ IdleService /\ IdleProcess /\ IdleTts
SpecImage == InitImageOnly /\ [][NextImage]_vars

\* one call of a service operation on the generative model
InitServiceOnly ==
    /\ IdleParse /\ IdleEnhance /\ IdleFile /\ IdleUpload
    /\ IdleImage /\ InitService /\ IdleProcess /\ IdleTts
SpecService == InitServiceOnly /\ [][NextService]_vars

\* the processing of one stored upload by a handler
InitProcessOnly ==
    /\ IdleParse /\ IdleEnhance /\ IdleFile /\ IdleUpload
    /\ IdleImage /\ IdleService /\ InitProcess /\ IdleTts
SpecProcess == InitProcessOnly /\ [][NextProcess]_vars
\* requests to POST /text-to-speech handled at the same time
InitTtsOnly ==
    /\ IdleParse /\ IdleEnhance /\ IdleFile /\ IdleUpload
    /\ IdleImage /\ IdleService /\ IdleProcess /\ InitTts
SpecTts == InitTtsOnly /\ [][NextTts]_vars

=============================================================================
